---- MODULE Spec2Model ----
(***************************************************************************)
(* Recipe manager: the PDF export routine (src/lib/pdf-utils.ts) and the   *)
(* remote-store call sequences of the form, list and detail screens.       *)
(*                                                                         *)
(* Conventions.                                                            *)
(*  - A JavaScript string is a sequence of UTF-16 code units (numbers).    *)
(*  - An optional value is <<>> (undefined) or <<v>>.                      *)
(*  - Lengths on the page are in tenths of a millimetre, so that           *)
(*    fontSize * 0.4 is the integer fontSize * 4.                          *)
(***************************************************************************)
EXTENDS Integers, Sequences, FiniteSets, TLC

VARIABLES
    recipe,       \* argument of generateRecipePDF
    pc,           \* position inside generateRecipePDF
    currentY,     \* let currentY
    tableStartY,  \* const tableStartY
    idx,          \* index of the running forEach
    pdf,          \* the jsPDF document: pages, what was drawn, what was saved
    thrown,       \* what the caller of generateRecipePDF received
    db,           \* the remote store: recipes, ingredients, instructions
    form,         \* RecipeForm: route id, view state, the running handlers
    list,         \* RecipeList: view state, the running handlers
    detail,       \* RecipeDetail: route id, view state, the running handlers
    log,          \* per handler: calls issued, toasts, navigations, console errors
    app           \* App: user, loading, the URL, what is rendered

pdfVars == <<recipe, pc, currentY, tableStartY, idx, pdf, thrown>>
storeVars == <<db, form, list, detail, log>>
vars == <<pdfVars, storeVars, app>>

(***************************************************************************)
(* Bounds of the model.                                                    *)
(***************************************************************************)
MaxNameLen == 2
MaxDescLines == 55
MaxIngredients == 2
MaxRows == 2
MaxSteps == 3
\* the user actions (a screen opened, a button pressed) of one run
MaxActions == 4
\* the callbacks of the session observer of one run
MaxCallbacks == 3

(***************************************************************************)
(* Optional values and JavaScript truthiness.                              *)
(***************************************************************************)
Undefined == <<>>
Some(v) == <<v>>
IsDefined(o) == o # <<>>
Get(o) == o[1]

\* `x || d` for an optional number: 0 and undefined are falsy
NumberOr(o, d) == IF IsDefined(o) /\ Get(o) # 0 THEN Get(o) ELSE d
\* `s ? ... : ...` for an optional string: "" and undefined are falsy
TruthyString(o) == IsDefined(o) /\ Get(o) # <<>>

RECURSIVE NumberToString(_)
NumberToString(n) ==
    IF n < 10 THEN <<48 + n>>
    ELSE NumberToString(n \div 10) \o <<48 + (n % 10)>>

(***************************************************************************)
(* The export file name.                                                   *)
(***************************************************************************)
\* code units the model draws recipe names from:
\* A a 0 space ! _ e-acute, KELVIN SIGN, I WITH DOT ABOVE, LONG S
NameChars == {65, 97, 48, 32, 33, 95, 233, 8490, 304, 383}

\* Canonicalize of a case-insensitive, non-unicode RegExp: the upper-case
\* form, unless that would turn a non-ASCII unit into an ASCII one.
Canonicalize(c) ==
    IF c \in 97..122 THEN c - 32
    ELSE IF c = 233 THEN 201
    ELSE c

CanonicalizePlain(c) == c

\* the class [a-z0-9] under the flags gi
InClassAZ09(c) ==
    \E x \in (97..122) \cup (48..57) : Canonicalize(c) = Canonicalize(x)

\* .replace(/[^a-z0-9]/gi, '_')
ReplaceNonAlnum(s) ==
    [i \in 1..Len(s) |-> IF InClassAZ09(s[i]) THEN s[i] ELSE 95]

\* String.prototype.toLowerCase on one code unit
LowerCaseUnit(c) ==
    IF c \in 65..90 THEN <<c + 32>>
    ELSE IF c = 201 THEN <<233>>
    ELSE IF c = 8490 THEN <<107>>
    ELSE IF c = 304 THEN <<105, 775>>
    ELSE <<c>>

RECURSIVE toLowerCase(_)
toLowerCase(s) ==
    IF s = <<>> THEN <<>>
    ELSE LowerCaseUnit(Head(s)) \o toLowerCase(Tail(s))

PdfExt == <<46, 112, 100, 102>>

fileNameLowerFirst(name) == ReplaceNonAlnum(toLowerCase(name)) \o PdfExt

fileName(name) == toLowerCase(ReplaceNonAlnum(name)) \o PdfExt

(***************************************************************************)
(* String constants of the export and of the examples.                     *)
(***************************************************************************)
\* 'Tiempo de Preparacion:' (o acute)
LabelPrep == <<84, 105, 101, 109, 112, 111, 32, 100, 101, 32, 80, 114, 101, 112, 97, 114, 97, 99, 105, 243, 110, 58>>
\* 'Tiempo de Coccion:' (o acute)
LabelCook == <<84, 105, 101, 109, 112, 111, 32, 100, 101, 32, 67, 111, 99, 99, 105, 243, 110, 58>>
\* 'Porciones:'
LabelServings == <<80, 111, 114, 99, 105, 111, 110, 101, 115, 58>>
\* 'Dificultad:'
LabelDifficulty == <<68, 105, 102, 105, 99, 117, 108, 116, 97, 100, 58>>
\* 'Categoria:' (i acute)
LabelCategory == <<67, 97, 116, 101, 103, 111, 114, 237, 97, 58>>
\* ' minutos'
Minutos == <<32, 109, 105, 110, 117, 116, 111, 115>>
\* 'Facil' (a acute)
Facil == <<70, 225, 99, 105, 108>>
\* 'Medio'
Medio == <<77, 101, 100, 105, 111>>
\* 'Dificil' (i acute)
Dificil == <<68, 105, 102, 237, 99, 105, 108>>
\* 'No especificado'
NoEspecificado == <<78, 111, 32, 101, 115, 112, 101, 99, 105, 102, 105, 99, 97, 100, 111>>
\* 'Ingredientes'
Ingredientes == <<73, 110, 103, 114, 101, 100, 105, 101, 110, 116, 101, 115>>
\* 'Instrucciones'
Instrucciones == <<73, 110, 115, 116, 114, 117, 99, 99, 105, 111, 110, 101, 115>>
\* 'Generado con Recipe Manager App'
FooterLabel == <<71, 101, 110, 101, 114, 97, 100, 111, 32, 99, 111, 110, 32, 82, 101, 99, 105, 112, 101, 32, 77, 97, 110, 97, 103, 101, 114, 32, 65, 112, 112>>
\* the bullet U+2022 and a space
Bullet == <<8226, 32>>
\* 'manzana'
Manzana == <<109, 97, 110, 122, 97, 110, 97>>
\* 'kg'
Kg == <<107, 103>>
\* 'picada'
Picada == <<112, 105, 99, 97, 100, 97>>
\* 'Postres'
Postres == <<80, 111, 115, 116, 114, 101, 115>>
\* 'Hornear 40 minutos'
Hornear == <<72, 111, 114, 110, 101, 97, 114, 32, 52, 48, 32, 109, 105, 110, 117, 116, 111, 115>>
\* 'Paella Valenciana!'
PaellaValenciana == <<80, 97, 101, 108, 108, 97, 32, 86, 97, 108, 101, 110, 99, 105, 97, 110, 97, 33>>
\* 'paella_valenciana_.pdf'
PaellaFile == <<112, 97, 101, 108, 108, 97, 95, 118, 97, 108, 101, 110, 99, 105, 97, 110, 97, 95, 46, 112, 100, 102>>
\* 'Tarta de Manzana'
TartaDeManzana == <<84, 97, 114, 116, 97, 32, 100, 101, 32, 77, 97, 110, 122, 97, 110, 97>>
\* 'tarta_de_manzana.pdf'
TartaFile == <<116, 97, 114, 116, 97, 95, 100, 101, 95, 109, 97, 110, 122, 97, 110, 97, 46, 112, 100, 102>>
\* bullet, '3', two spaces, 'manzana'
Line3Manzana == <<8226, 32, 51, 32, 32, 109, 97, 110, 122, 97, 110, 97>>

(***************************************************************************)
(* Page geometry (tenths of a millimetre). jsPDF's default page is A4 in   *)
(* millimetres: 297.0000833 high. The cursor only takes multiples of 0.1,  *)
(* so comparing against 2770 decides as the code's comparison does.        *)
(***************************************************************************)
pageHeight == 2970
margin == 200
rowHeight == 80
textSpacing == 50
separatorNeed == 100
separatorAdvance == 150
footerOffset == 150

\* const lineHeight = fontSize * 0.4
lineHeight(fontSize) == fontSize * 4

(***************************************************************************)
(* The primitives of generateRecipePDF. doc is the jsPDF document, y the   *)
(* cursor; the result carries both. doc.drawn is what was drawn, in order, *)
(* and doc.calls the calls of addText: the cursor, the lines and the font  *)
(* size each was given, the pages there were, and the cursor it left.      *)
(***************************************************************************)
addPage(doc) == [doc EXCEPT !.pages = @ + 1]

\* a draw that lands on the first page whatever the current page is
DrawOnFirstPage(doc, sec, y, h, text) ==
    [doc EXCEPT !.drawn =
        Append(@, [sec |-> sec, page |-> 1, y |-> y, h |-> h, text |-> text])]

\* pdf.text and pdf.line draw on the current page, the last one added
Draw(doc, sec, y, h, text) ==
    [doc EXCEPT !.drawn =
        Append(@, [sec |-> sec, page |-> doc.pages, y |-> y, h |-> h, text |-> text])]

\* a test that never asks for a page
NeedsNewPageNever(y, h) == FALSE

\* the page-break test of addText
NeedsNewPage(y, h) == y + h > pageHeight - margin

addText(doc, y, text, lines, fontSize, sec) ==
    LET h  == lines * lineHeight(fontSize)
        d1 == IF NeedsNewPage(y, h) THEN addPage(doc) ELSE doc
        y1 == IF NeedsNewPage(y, h) THEN margin ELSE y
        y2 == y1 + h + textSpacing
    IN  [pdf |-> [Draw(d1, sec, y1, h, text) EXCEPT !.calls =
                     Append(@, [y |-> y, lines |-> lines, fontSize |-> fontSize,
                                pages |-> doc.pages, after |-> y2])],
         currentY |-> y2]

\* a separator that never starts a page
addSeparatorInPlace(doc, y) ==
    [pdf |-> Draw(doc, "separator", y, 0, <<>>), currentY |-> y + separatorAdvance]

addSeparator(doc, y) ==
    LET brk == y + separatorNeed > pageHeight - margin
        d1  == IF brk THEN addPage(doc) ELSE doc
        y1  == IF brk THEN margin ELSE y
    IN  [pdf |-> Draw(d1, "separator", y1, 0, <<>>), currentY |-> y1 + separatorAdvance]

getDifficultyTextNoDefault(difficulty) ==
    IF difficulty = Some("easy") THEN Facil
    ELSE IF difficulty = Some("medium") THEN Medio
    ELSE Dificil

getDifficultyText(difficulty) ==
    IF difficulty = Some("easy") THEN Facil
    ELSE IF difficulty = Some("medium") THEN Medio
    ELSE IF difficulty = Some("hard") THEN Dificil
    ELSE NoEspecificado

\* const infoData = [...]
infoData(r) ==
    << <<LabelPrep, NumberToString(NumberOr(r.preparation_time, 0)) \o Minutos>>,
       <<LabelCook, NumberToString(NumberOr(r.cooking_time, 0)) \o Minutos>>,
       <<LabelServings, NumberToString(NumberOr(r.servings, 1))>>,
       <<LabelDifficulty, getDifficultyText(r.difficulty)>> >>
    \o (IF TruthyString(r.category) THEN << <<LabelCategory, Get(r.category)>> >> ELSE <<>>)

ingredientTextNoSpace(ing) ==
    Bullet
    \o (IF IsDefined(ing.quantity) /\ Get(ing.quantity) # 0
        THEN NumberToString(Get(ing.quantity)) \o <<32>> ELSE <<>>)
    \o (IF TruthyString(ing.unit) THEN Get(ing.unit) \o <<32>> ELSE <<>>)
    \o ing.ingredient
    \o (IF TruthyString(ing.notes) THEN <<32, 40>> \o Get(ing.notes) \o <<41>> ELSE <<>>)

\* const ingredientText = `...`; unit is the unit's name when it was resolved
ingredientText(ing) ==
    Bullet
    \o (IF IsDefined(ing.quantity) /\ Get(ing.quantity) # 0
        THEN NumberToString(Get(ing.quantity)) \o <<32>> ELSE <<>>)
    \o (IF TruthyString(ing.unit) THEN Get(ing.unit) ELSE <<>>)
    \o <<32>>
    \o ing.ingredient
    \o (IF TruthyString(ing.notes) THEN <<32, 40>> \o Get(ing.notes) \o <<41>> ELSE <<>>)

\* const stepText = `${instruction.step_number}. ${instruction.instruction}`
stepText(ins) == NumberToString(ins.step_number) \o <<46, 32>> \o ins.instruction

GenericError == "No se pudo generar el PDF"
OriginalErrors == {"TypeError", "RangeError"}

catchBlockRethrow(e) == e

\* catch (error) { console.error(...); throw new Error('No se pudo generar el PDF') }
catchBlock(e) == GenericError

(***************************************************************************)
(* The recipes handed to generateRecipePDF. titleLines, descLines and      *)
(* lines are what pdf.splitTextToSize returns for the text beside them.    *)
(***************************************************************************)
RECURSIVE SeqsUpTo(_, _)
SeqsUpTo(S, n) ==
    IF n = 0 THEN {<<>>}
    ELSE LET shorter == SeqsUpTo(S, n - 1)
         IN  shorter \cup {Append(q, x) : q \in {t \in shorter : Len(t) = n - 1}, x \in S}

IngredientKinds ==
    [quantity : {Undefined, Some(0), Some(3)},
     unit : {Undefined, Some(Kg)},
     ingredient : {Manzana},
     notes : {Undefined, Some(<<>>), Some(Picada)},
     lines : {1}]

OneInstruction == <<[step_number |-> 1, instruction |-> Hornear, lines |-> 1]>>

BaseRecipe ==
    [name |-> TartaDeManzana, titleLines |-> 1,
     description |-> Undefined, descLines |-> 1,
     preparation_time |-> Some(30), cooking_time |-> Some(40), servings |-> Some(4),
     difficulty |-> Some("easy"), category |-> Undefined,
     ingredients |-> <<[quantity |-> Some(3), unit |-> Undefined, ingredient |-> Manzana,
                        notes |-> Undefined, lines |-> 1]>>,
     instructions |-> OneInstruction]

NameFamily ==
    {[BaseRecipe EXCEPT !.name = n] :
        n \in SeqsUpTo(NameChars, MaxNameLen) \cup {PaellaValenciana, TartaDeManzana}}

LayoutFamily ==
    {[BaseRecipe EXCEPT !.titleLines = t, !.description = d[1], !.descLines = d[2],
                        !.category = c, !.instructions = i] :
        t \in {1, 2},
        d \in {<<Undefined, 1>>, <<Some(<<>>), 1>>}
              \cup {<<Some(Picada), n>> : n \in 1..MaxDescLines},
        c \in {Undefined, Some(Postres)},
        i \in {<<>>, OneInstruction}}

Difficulties ==
    {Undefined, Some("easy"), Some("medium"), Some("hard"), Some(""), Some("EASY"), Some("expert")}

MetaFamily ==
    {[BaseRecipe EXCEPT !.preparation_time = p, !.cooking_time = k, !.servings = v,
                        !.difficulty = d, !.category = c] :
        p \in {Undefined, Some(0), Some(15)},
        k \in {Undefined, Some(90)},
        v \in {Undefined, Some(0), Some(6)},
        d \in Difficulties,
        c \in {Undefined, Some(<<>>), Some(Postres)}}

IngredientFamily ==
    {[BaseRecipe EXCEPT !.ingredients = g] : g \in SeqsUpTo(IngredientKinds, MaxIngredients)}

\* the instruction rows of a recipe as the store holds them, in the order of
\* their creation: the form numbers an appended step with the count of its rows
\* plus one, so that removing steps and appending others leaves numbers that
\* repeat or go down; the row created k-th has the text 'a', 'b', 'c', ...
StoredInstructions ==
    {[k \in 1..Len(q) |-> [step_number |-> q[k], instruction |-> <<96 + k>>, lines |-> 1]] :
        q \in SeqsUpTo(1..MaxSteps, MaxSteps)}

Ascending(rows) ==
    \A j, k \in 1..Len(rows) : j < k => rows[j].step_number <= rows[k].step_number

\* a list call without orderBy answers the rows in the order of their creation
orderByNothing(rows) == {rows}

\* instructions.list with orderBy: { step_number: 'asc' }: the rows by ascending
\* step number, rows of the same number in any order
orderBy(rows) ==
    {s \in {[k \in 1..Len(rows) |-> rows[p[k]]] : p \in Permutations(1..Len(rows))} :
        Ascending(s)}

\* the recipes exportToPDF and the detail screen put together from the rows
InstructionFamily ==
    {[BaseRecipe EXCEPT !.instructions = i] :
        i \in UNION {orderBy(rows) : rows \in StoredInstructions}}

ExportRecipes ==
    NameFamily \cup LayoutFamily \cup MetaFamily \cup IngredientFamily \cup InstructionFamily

(***************************************************************************)
(* generateRecipePDF, one action per statement group.                      *)
(***************************************************************************)
TrySteps ==
    {"title", "description", "tableStart", "row", "sep1", "ingHeading", "ingredients",
     "insHeading", "instructions", "footer", "save"}

\* lines 10-15: new jsPDF() and the geometry, before the try
NewDocument ==
    /\ pc = "new"
    /\ pdf' = [pdf EXCEPT !.pages = 1]
    /\ currentY' = margin
    /\ pc' = "title"
    /\ UNCHANGED <<storeVars, app, recipe, tableStartY, idx, thrown>>

\* the constructor throws: nothing catches it, the caller gets the error itself
NewDocumentThrows ==
    /\ pc = "new"
    /\ \E e \in OriginalErrors : thrown' = Some([message |-> e, at |-> pc])
    /\ pc' = "failed"
    /\ UNCHANGED <<storeVars, app, recipe, currentY, tableStartY, idx, pdf>>

\* lines 54-55
Title ==
    /\ pc = "title"
    /\ LET r == addText(pdf, currentY, recipe.name, recipe.titleLines, 24, "title")
       IN  pdf' = r.pdf /\ currentY' = r.currentY + 50
    /\ pc' = "description"
    /\ UNCHANGED <<storeVars, app, recipe, tableStartY, idx, thrown>>

\* lines 58-61
Description ==
    /\ pc = "description"
    /\ IF TruthyString(recipe.description)
       THEN LET r == addText(pdf, currentY, Get(recipe.description), recipe.descLines, 12,
                             "description")
            IN  pdf' = r.pdf /\ currentY' = r.currentY + 100
       ELSE UNCHANGED <<pdf, currentY>>
    /\ pc' = "tableStart"
    /\ UNCHANGED <<storeVars, app, recipe, tableStartY, idx, thrown>>

\* lines 73-90
TableStart ==
    /\ pc = "tableStart"
    /\ tableStartY' = currentY
    /\ idx' = 0
    /\ pc' = "row"
    /\ UNCHANGED <<storeVars, app, recipe, currentY, pdf, thrown>>

\* the y of row number i (from 0) of the table
RowY(i) == tableStartY + i * rowHeight

\* a fit check that fails for the first row past the page only
RowOverflowsOnce(i) ==
    /\ RowY(i) + rowHeight > pageHeight - margin
    /\ (i = 0 \/ RowY(i - 1) + rowHeight <= pageHeight - margin)

\* the fit check of a row, line 96
RowOverflows(i) == RowY(i) + rowHeight > pageHeight - margin

\* lines 92-109, one iteration that draws
TableRowDraw ==
    /\ pc = "row"
    /\ idx < Len(infoData(recipe))
    /\ ~RowOverflows(idx)
    /\ pdf' = Draw(pdf, "table", RowY(idx), rowHeight, infoData(recipe)[idx + 1])
    /\ idx' = idx + 1
    /\ UNCHANGED <<storeVars, app, recipe, pc, currentY, tableStartY, thrown>>

\* lines 96-100, one iteration that starts a page and returns
TableRowOverflow ==
    /\ pc = "row"
    /\ idx < Len(infoData(recipe))
    /\ RowOverflows(idx)
    /\ pdf' = addPage(pdf)
    /\ currentY' = margin
    /\ idx' = idx + 1
    /\ UNCHANGED <<storeVars, app, recipe, pc, tableStartY, thrown>>

\* line 111
TableEnd ==
    /\ pc = "row"
    /\ idx = Len(infoData(recipe))
    /\ currentY' = tableStartY + Len(infoData(recipe)) * rowHeight + 150
    /\ pc' = "sep1"
    /\ UNCHANGED <<storeVars, app, recipe, tableStartY, idx, pdf, thrown>>

\* line 114
Separator1 ==
    /\ pc = "sep1"
    /\ LET r == addSeparator(pdf, currentY)
       IN  pdf' = r.pdf /\ currentY' = r.currentY
    /\ pc' = "ingHeading"
    /\ UNCHANGED <<storeVars, app, recipe, tableStartY, idx, thrown>>

\* lines 117-118
IngredientsHeading ==
    /\ pc = "ingHeading"
    /\ LET r == addText(pdf, currentY, Ingredientes, 1, 18, "ingHeading")
       IN  pdf' = r.pdf /\ currentY' = r.currentY + 50
    /\ idx' = 0
    /\ pc' = "ingredients"
    /\ UNCHANGED <<storeVars, app, recipe, tableStartY, thrown>>

\* lines 120-123, one iteration
IngredientLine ==
    /\ pc = "ingredients"
    /\ idx < Len(recipe.ingredients)
    /\ LET ing == recipe.ingredients[idx + 1]
           r   == addText(pdf, currentY, ingredientText(ing), ing.lines, 11, "ingredient")
       IN  pdf' = r.pdf /\ currentY' = r.currentY
    /\ idx' = idx + 1
    /\ UNCHANGED <<storeVars, app, recipe, pc, tableStartY, thrown>>

\* lines 125-126
Separator2 ==
    /\ pc = "ingredients"
    /\ idx = Len(recipe.ingredients)
    /\ LET r == addSeparator(pdf, currentY + 100)
       IN  pdf' = r.pdf /\ currentY' = r.currentY
    /\ pc' = "insHeading"
    /\ UNCHANGED <<storeVars, app, recipe, tableStartY, idx, thrown>>

\* lines 129-130
InstructionsHeading ==
    /\ pc = "insHeading"
    /\ LET r == addText(pdf, currentY, Instrucciones, 1, 18, "insHeading")
       IN  pdf' = r.pdf /\ currentY' = r.currentY + 50
    /\ idx' = 0
    /\ pc' = "instructions"
    /\ UNCHANGED <<storeVars, app, recipe, tableStartY, thrown>>

\* lines 132-137, one iteration
InstructionLine ==
    /\ pc = "instructions"
    /\ idx < Len(recipe.instructions)
    /\ LET ins == recipe.instructions[idx + 1]
           r   == addText(pdf, currentY, stepText(ins), ins.lines, 11, "instruction")
       IN  pdf' = r.pdf /\ currentY' = r.currentY + 30
    /\ idx' = idx + 1
    /\ UNCHANGED <<storeVars, app, recipe, pc, tableStartY, thrown>>

InstructionsEnd ==
    /\ pc = "instructions"
    /\ idx = Len(recipe.instructions)
    /\ pc' = "footer"
    /\ UNCHANGED <<storeVars, app, recipe, currentY, tableStartY, idx, pdf, thrown>>

\* lines 140-145
Footer ==
    /\ pc = "footer"
    /\ pdf' = Draw(pdf, "footer", pageHeight - footerOffset, 0, FooterLabel)
    /\ pc' = "save"
    /\ UNCHANGED <<storeVars, app, recipe, currentY, tableStartY, idx, thrown>>

\* lines 148-149
Save ==
    /\ pc = "save"
    /\ pdf' = [pdf EXCEPT !.saved = Append(@, fileName(recipe.name))]
    /\ pc' = "done"
    /\ UNCHANGED <<storeVars, app, recipe, currentY, tableStartY, idx, thrown>>

\* a jsPDF call of a layout step throws: lines 151-154
LayoutThrows ==
    /\ pc \in TrySteps \ {"save"}
    /\ \E e \in OriginalErrors : thrown' = Some([message |-> catchBlock(e), at |-> pc])
    /\ pc' = "failed"
    /\ UNCHANGED <<storeVars, app, recipe, currentY, tableStartY, idx, pdf>>

\* pdf.save itself throws: it was invoked, and the catch block runs
SaveThrows ==
    /\ pc = "save"
    /\ pdf' = [pdf EXCEPT !.saved = Append(@, fileName(recipe.name))]
    /\ \E e \in OriginalErrors : thrown' = Some([message |-> catchBlock(e), at |-> pc])
    /\ pc' = "failed"
    /\ UNCHANGED <<storeVars, app, recipe, currentY, tableStartY, idx>>

PdfNext ==
    \/ NewDocument \/ NewDocumentThrows
    \/ Title \/ Description
    \/ TableStart \/ TableRowDraw \/ TableRowOverflow \/ TableEnd
    \/ Separator1 \/ IngredientsHeading \/ IngredientLine \/ Separator2
    \/ InstructionsHeading \/ InstructionLine \/ InstructionsEnd
    \/ Footer \/ Save \/ LayoutThrows \/ SaveThrows

(***************************************************************************)
(* The remote store. Recipes 1 and 2 exist, each with one ingredient row   *)
(* and one instruction row; 3 is the id the store gives a created recipe.  *)
(* The store keeps the foreign keys the delete handlers are written for    *)
(* ("eliminar ingredientes e instrucciones primero (por las foreign        *)
(* keys)"): it refuses to delete a recipe that rows still reference and to *)
(* insert a row for a recipe that does not exist. Any call may also fail   *)
(* on its own (network); a failed call changes nothing.                    *)
(***************************************************************************)
ExistingIds == {1, 2}
RecipeIds == {1, 2, 3}

\* 'O' and 'o': the name and the row texts already stored
OldName == <<79>>
OldText == <<111>>

StoreStart ==
    [recipes |-> [i \in RecipeIds |-> IF i \in ExistingIds THEN Some(OldName) ELSE Undefined],
     ingredients |-> <<[recipe_id |-> 1, ingredient |-> OldText],
                       [recipe_id |-> 2, ingredient |-> OldText]>>,
     instructions |-> <<[recipe_id |-> 1, step_number |-> 1, instruction |-> OldText],
                        [recipe_id |-> 2, step_number |-> 1, instruction |-> OldText]>>,
     original |-> {},
     nextId |-> 3]

\* list({ where: { recipe_id: id } })
RowsOf(rows, id) == SelectSeq(rows, LAMBDA r : r.recipe_id = id)
RecipeExists(d, id) == id \in RecipeIds /\ d.recipes[id] # Undefined
HasRows(d, id) == RowsOf(d.ingredients, id) # <<>> \/ RowsOf(d.instructions, id) # <<>>

\* recipes.list({ where: { deleted_at: null }, orderBy: { created_at: 'desc' } })
RecipesDesc(d) ==
    SelectSeq(<<3, 2, 1>>, LAMBDA i : RecipeExists(d, i))

recipesUpdate(d, id, data) ==
    IF RecipeExists(d, id) THEN [d EXCEPT !.recipes[id] = Some(data.name)] ELSE d
\* original: the recipes created with is_original: true
recipesCreate(d, data) ==
    [d EXCEPT !.recipes[d.nextId] = Some(data.name), !.original = @ \cup {d.nextId},
              !.nextId = @ + 1]
recipesDeleteNothing(d, id) == d
recipesDelete(d, id) == [d EXCEPT !.recipes[id] = Undefined]
ingredientsDeleteAll(d, id) == [d EXCEPT !.ingredients = <<>>]
ingredientsDelete(d, id) ==
    [d EXCEPT !.ingredients = SelectSeq(@, LAMBDA r : r.recipe_id # id)]
instructionsDeleteNothing(d, id) == d
instructionsDelete(d, id) ==
    [d EXCEPT !.instructions = SelectSeq(@, LAMBDA r : r.recipe_id # id)]
ingredientsCreate(d, row) == [d EXCEPT !.ingredients = Append(@, row)]
instructionsCreate(d, row) == [d EXCEPT !.instructions = Append(@, row)]

\* the foreign keys
CanDeleteRecipe(d, id) == ~HasRows(d, id)
CanCreateRow(d, id) == RecipeExists(d, id)

(***************************************************************************)
(* What each handler did: the remote calls it issued, its toasts, its      *)
(* navigations, its console.error calls and the call that failed (0: none).*)
(***************************************************************************)
Tasks ==
    {"loadUnits", "form.loadRecipe", "onSubmit", "loadRecipes", "deleteRecipe.1",
     "deleteRecipe.2", "exportToPDF", "detail.loadRecipe", "handleDelete"}

NoLog == [calls |-> <<>>, toasts |-> <<>>, navs |-> <<>>, consoleErrors |-> 0, failed |-> 0]

Call(lg, t, op, arg) == [lg EXCEPT ![t].calls = Append(@, [op |-> op, arg |-> arg])]
toast(lg, t, variant, description) ==
    [lg EXCEPT ![t].toasts = Append(@, [variant |-> variant, description |-> description])]
navigate(lg, t, path) == [lg EXCEPT ![t].navs = Append(@, path)]
\* a call of t failed and its catch block logged the error
Caught(lg, t) ==
    [lg EXCEPT ![t].consoleErrors = @ + 1, ![t].failed = Len(lg[t].calls)]

(***************************************************************************)
(* RecipeForm.                                                             *)
(***************************************************************************)
\* the white space String.prototype.trim strips (the units the model uses)
WhiteSpace == {9, 10, 13, 32, 160}

RECURSIVE trimStart(_)
trimStart(s) == IF s # <<>> /\ Head(s) \in WhiteSpace THEN trimStart(Tail(s)) ELSE s

RECURSIVE trimEnd(_)
trimEnd(s) ==
    IF s # <<>> /\ s[Len(s)] \in WhiteSpace THEN trimEnd(SubSeq(s, 1, Len(s) - 1)) ELSE s

trimNothing(s) == s

trim(s) == trimEnd(trimStart(s))

\* the texts typed into a row: '', ' ', 'a', 'a '
FormTexts == {<<>>, <<32>>, <<97>>, <<97, 32>>}
\* 'N'
NewName == <<78>>

\* form data with the given name and row texts; the number inputs hold 30, 40, 4
\* and, in every ingredient row, 3
FormData(n, g, t) ==
    [name |-> n, preparation_time |-> 30, cooking_time |-> 40, servings |-> 4,
     ingredients |-> [k \in 1..Len(g) |-> [ingredient |-> g[k], quantity |-> 3]],
     instructions |-> [k \in 1..Len(t) |-> [step_number |-> k, instruction |-> t[k]]]]

FormInputs ==
    {FormData(n, g, t) :
        n \in {<<>>, NewName},
        g \in SeqsUpTo(FormTexts, MaxRows),
        t \in SeqsUpTo(FormTexts, MaxRows)}

\* a name of 256 characters
LongName == [k \in 1..256 |-> 78]

\* line 40: the instruction rows of a new form
DefaultInstructions == <<[step_number |-> 1, instruction |-> <<>>]>>

\* lines 31-42: the values of a new form
defaultValues ==
    [name |-> <<>>, preparation_time |-> 0, cooking_time |-> 0, servings |-> 1,
     ingredients |-> <<[ingredient |-> <<>>, quantity |-> 0]>>,
     instructions |-> DefaultInstructions]

\* the numbers of a new form, and the numbers of FormData once typed: lines 301,
\* 320, 339 and 422
DefaultNumbers ==
    [preparation_time |-> defaultValues.preparation_time,
     cooking_time |-> defaultValues.cooking_time,
     servings |-> defaultValues.servings,
     quantity |-> defaultValues.ingredients[1].quantity]
TypedNumbers == [preparation_time |-> 30, cooking_time |-> 40, servings |-> 4, quantity |-> 3]

\* form data the number inputs, the name or a removed step make invalid:
\* parseInt(value) || 0 gives 0 for an empty input and keeps a negative number
InvalidInputs ==
    LET ok == FormData(NewName, <<<<97>>>>, <<<<97>>>>)
    IN  {[ok EXCEPT !.name = LongName],
         [ok EXCEPT !.preparation_time = 0],
         [ok EXCEPT !.cooking_time = 0 - 5],
         [ok EXCEPT !.servings = 0],
         [ok EXCEPT !.ingredients[1].quantity = 0],
         [ok EXCEPT !.instructions[1].step_number = 0]}

\* validations: the fields of recipeSchema the modelled form data carries
ingredientSchema(row) == Len(row.ingredient) >= 1 /\ row.quantity > 0
instructionSchema(row) == row.step_number > 0 /\ Len(row.instruction) >= 1

Fields ==
    {"name", "preparation_time", "cooking_time", "servings", "ingredients", "instructions"}

FieldValid(f, data) ==
    CASE f = "name" -> Len(data.name) >= 1 /\ Len(data.name) <= 255
      [] f = "preparation_time" -> data.preparation_time > 0
      [] f = "cooking_time" -> data.cooking_time > 0
      [] f = "servings" -> data.servings > 0
      [] f = "ingredients" ->
            /\ Len(data.ingredients) >= 1
            /\ \A k \in 1..Len(data.ingredients) : ingredientSchema(data.ingredients[k])
      [] f = "instructions" ->
            /\ Len(data.instructions) >= 1
            /\ \A k \in 1..Len(data.instructions) : instructionSchema(data.instructions[k])

\* the schema without its checks of the numbers
recipeSchemaTextsOnly(data) ==
    /\ FieldValid("name", data)
    /\ Len(data.ingredients) >= 1
    /\ \A k \in 1..Len(data.ingredients) : Len(data.ingredients[k].ingredient) >= 1
    /\ FieldValid("instructions", data)

recipeSchema(data) == \A f \in Fields : FieldValid(f, data)

\* the field errors the resolver reports
zodResolver(data) == {f \in Fields : ~FieldValid(f, data)}

NoData ==
    [name |-> <<>>, preparation_time |-> 0, cooking_time |-> 0, servings |-> 1,
     ingredients |-> <<>>, instructions |-> <<>>]

FormStart(routeId) ==
    [id |-> routeId, isEditing |-> IsDefined(routeId), mounted |-> FALSE, loading |-> FALSE,
     units |-> FALSE, rejected |-> FALSE, errors |-> {},
     unitsPc |-> "idle", loadPc |-> "idle", pc |-> "idle", data |-> NoData, i |-> 0,
     instructionFields |-> DefaultInstructions, numbers |-> DefaultNumbers]

\* the user actions taken so far; the model follows at most MaxActions of them
One(b) == IF b THEN 1 ELSE 0
ActionsStarted ==
    One(form.mounted) + One(form.pc # "idle" \/ form.rejected)
    + One(list.mounted) + One(list.exp.pc # "idle")
    + Cardinality({i \in DOMAIN list.del : list.del[i].pc # "idle"})
    + One(detail.mounted) + One(detail.delPc # "idle")
MayStart == ActionsStarted < MaxActions

\* the two useEffect bodies at mount: lines 55-65 and 68-117
FormMount ==
    /\ MayStart /\ ~form.mounted
    /\ form' = [form EXCEPT !.mounted = TRUE, !.unitsPc = "units.list",
                            !.loading = form.isEditing,
                            !.loadPc = IF form.isEditing THEN "recipes.list" ELSE "idle"]
    /\ log' = IF form.isEditing
              THEN Call(Call(log, "loadUnits", "units.list", <<>>),
                        "form.loadRecipe", "recipes.list", form.id)
              ELSE Call(log, "loadUnits", "units.list", <<>>)
    /\ UNCHANGED <<pdfVars, app, db, list, detail>>

\* lines 58-59
LoadUnitsOk ==
    /\ form.unitsPc = "units.list"
    /\ form' = [form EXCEPT !.unitsPc = "done", !.units = TRUE]
    /\ UNCHANGED <<pdfVars, app, db, list, detail, log>>

\* lines 60-62: the failure is logged, nothing is shown
LoadUnitsFails ==
    /\ form.unitsPc = "units.list"
    /\ form' = [form EXCEPT !.unitsPc = "failed"]
    /\ log' = Caught(log, "loadUnits")
    /\ UNCHANGED <<pdfVars, app, db, list, detail>>

\* lines 73-79 and 111-113
FormLoadRecipeOk ==
    /\ form.loadPc = "recipes.list"
    /\ IF RecipeExists(db, Get(form.id))
       THEN /\ form' = [form EXCEPT !.loadPc = "ingredients.list"]
            /\ log' = Call(log, "form.loadRecipe", "ingredients.list", form.id)
       ELSE /\ form' = [form EXCEPT !.loadPc = "done", !.loading = FALSE]
            /\ UNCHANGED log
    /\ UNCHANGED <<pdfVars, app, db, list, detail>>

\* lines 82-90
FormLoadIngredientsOk ==
    /\ form.loadPc = "ingredients.list"
    /\ form' = [form EXCEPT !.loadPc = "instructions.list"]
    /\ log' = Call(log, "form.loadRecipe", "instructions.list", form.id)
    /\ UNCHANGED <<pdfVars, app, db, list, detail>>

\* lines 92-102 and 111-113: form.reset with what was loaded (the recipes of the
\* store were saved with the numbers of FormData)
FormLoadInstructionsOk ==
    /\ form.loadPc = "instructions.list"
    /\ \E s \in orderBy(RowsOf(db.instructions, Get(form.id))) :
          form' = [form EXCEPT !.loadPc = "done", !.loading = FALSE,
                               !.numbers = TypedNumbers,
                               !.instructionFields =
                                   IF Len(s) > 0
                                   THEN [k \in 1..Len(s) |->
                                            [step_number |-> s[k].step_number,
                                             instruction |-> s[k].instruction]]
                                   ELSE DefaultInstructions]
    /\ UNCHANGED <<pdfVars, app, db, list, detail, log>>

\* lines 104-113
FormLoadFails ==
    /\ form.loadPc \in {"recipes.list", "ingredients.list", "instructions.list"}
    /\ form' = [form EXCEPT !.loadPc = "failed", !.loading = FALSE]
    /\ log' = toast(Caught(log, "form.loadRecipe"), "form.loadRecipe", "destructive",
                    "No se pudo cargar la receta")
    /\ UNCHANGED <<pdfVars, app, db, list, detail>>

\* the loops of lines 155-176: the first row from i on that passes the trim test
RECURSIVE SkipBlank(_, _)
SkipBlank(texts, i) ==
    IF i > Len(texts) THEN i
    ELSE IF trim(texts[i]) # <<>> THEN i
    ELSE SkipBlank(texts, i + 1)

IngredientTexts(data) == [k \in 1..Len(data.ingredients) |-> data.ingredients[k].ingredient]
InstructionTexts(data) == [k \in 1..Len(data.instructions) |-> data.instructions[k].instruction]

\* the next await of onSubmit when the loop `phase` goes on at row i
NextAwait(data, phase, i) ==
    LET ji == SkipBlank(IngredientTexts(data), i)
        jn == SkipBlank(InstructionTexts(data), IF phase = "ingredients" THEN 1 ELSE i)
    IN  IF phase = "ingredients" /\ ji <= Len(data.ingredients)
        THEN [pc |-> "ingredients.create", i |-> ji]
        ELSE IF jn <= Len(data.instructions)
        THEN [pc |-> "instructions.create", i |-> jn]
        ELSE [pc |-> "done", i |-> 0]

SuccessText(f) ==
    IF f.isEditing THEN "Receta actualizada correctamente" ELSE "Receta creada correctamente"
FailureText(f) ==
    IF f.isEditing THEN "No se pudo actualizar la receta" ELSE "No se pudo crear la receta"

\* onSubmit runs on to its next await, or to its end: lines 155-183, 191-193
SubmitGoesOn(f, lg, nxt) ==
    IF nxt.pc = "done"
    THEN [form |-> [f EXCEPT !.pc = "done", !.i = 0, !.loading = FALSE],
          log |-> navigate(toast(lg, "onSubmit", "default", SuccessText(f)), "onSubmit", "/")]
    ELSE [form |-> [f EXCEPT !.pc = nxt.pc, !.i = nxt.i],
          log |-> Call(lg, "onSubmit", nxt.pc, <<nxt.i>>)]

\* the catch block without the finally block
SubmitCaughtNoFinally(f, lg) ==
    [form |-> [f EXCEPT !.pc = "failed"],
     log |-> toast(lg, "onSubmit", "destructive", FailureText(f))]

\* lines 184-193
SubmitCaught(f, lg) ==
    [form |-> [f EXCEPT !.pc = "failed", !.loading = FALSE],
     log |-> toast(lg, "onSubmit", "destructive", FailureText(f))]

\* form.handleSubmit(onSubmit) with data the schema accepts: lines 119-152 to the first await
HandleSubmit(inputs) ==
    /\ MayStart /\ form.mounted /\ ~form.loading /\ form.pc = "idle"
    /\ \E data \in inputs :
        /\ recipeSchema(data)
        /\ form' = [form EXCEPT !.loading = TRUE, !.data = data, !.errors = {},
                                !.pc = IF form.isEditing THEN "recipes.update"
                                       ELSE "recipes.create"]
        /\ log' = IF form.isEditing
                  THEN Call(log, "onSubmit", "recipes.update", form.id)
                  ELSE Call(log, "onSubmit", "recipes.create", <<>>)
    /\ UNCHANGED <<pdfVars, app, db, list, detail>>

\* form.handleSubmit(onSubmit) with data the schema rejects: onSubmit is not called
\* (the model follows the first rejected submission of a run)
HandleSubmitRejected(inputs) ==
    /\ MayStart /\ form.mounted /\ ~form.loading /\ form.pc = "idle" /\ ~form.rejected
    /\ \E data \in inputs :
        /\ ~recipeSchema(data)
        /\ form' = [form EXCEPT !.rejected = TRUE, !.errors = zodResolver(data)]
    /\ UNCHANGED <<pdfVars, app, db, list, detail, log>>

\* lines 125-137
SubmitUpdateOk ==
    /\ form.pc = "recipes.update"
    /\ db' = recipesUpdate(db, Get(form.id), form.data)
    /\ form' = [form EXCEPT !.pc = "ingredients.delete"]
    /\ log' = Call(log, "onSubmit", "ingredients.delete", form.id)
    /\ UNCHANGED <<pdfVars, app, list, detail>>

\* lines 137-138
SubmitDeleteIngredientsOk ==
    /\ form.pc = "ingredients.delete"
    /\ db' = ingredientsDelete(db, Get(form.id))
    /\ form' = [form EXCEPT !.pc = "instructions.delete"]
    /\ log' = Call(log, "onSubmit", "instructions.delete", form.id)
    /\ UNCHANGED <<pdfVars, app, list, detail>>

\* line 138, then the loops
SubmitDeleteInstructionsOk ==
    /\ form.pc = "instructions.delete"
    /\ db' = instructionsDelete(db, Get(form.id))
    /\ LET r == SubmitGoesOn(form, log, NextAwait(form.data, "ingredients", 1))
       IN  form' = r.form /\ log' = r.log
    /\ UNCHANGED <<pdfVars, app, list, detail>>

\* lines 141-151: the recipe is created; `id` is declared const (line 23), so the
\* assignment of line 151 throws a TypeError, which the catch block handles
SubmitCreateOkAssignmentThrows ==
    /\ form.pc = "recipes.create"
    /\ db.nextId \in RecipeIds
    /\ db' = recipesCreate(db, form.data)
    /\ LET r == SubmitCaught(form, [log EXCEPT !["onSubmit"].consoleErrors = @ + 1])
       IN  form' = r.form /\ log' = r.log
    /\ UNCHANGED <<pdfVars, app, list, detail>>

\* lines 141-151 in a build that turns const into var: the assignment takes place
SubmitCreateOkAssigned ==
    /\ form.pc = "recipes.create"
    /\ db.nextId \in RecipeIds
    /\ db' = recipesCreate(db, form.data)
    /\ LET f == [form EXCEPT !.id = Some(db.nextId)]
           r == SubmitGoesOn(f, log, NextAwait(form.data, "ingredients", 1))
       IN  form' = r.form /\ log' = r.log
    /\ UNCHANGED <<pdfVars, app, list, detail>>

\* lines 157-163, then the loops go on
SubmitIngredientOk ==
    /\ form.pc = "ingredients.create"
    /\ CanCreateRow(db, Get(form.id))
    /\ db' = ingredientsCreate(db, [recipe_id |-> Get(form.id),
                                    ingredient |-> form.data.ingredients[form.i].ingredient])
    /\ LET r == SubmitGoesOn(form, log, NextAwait(form.data, "ingredients", form.i + 1))
       IN  form' = r.form /\ log' = r.log
    /\ UNCHANGED <<pdfVars, app, list, detail>>

\* lines 170-174, then the loop goes on
SubmitInstructionOk ==
    /\ form.pc = "instructions.create"
    /\ CanCreateRow(db, Get(form.id))
    /\ db' = instructionsCreate(db, [recipe_id |-> Get(form.id),
                                     step_number |-> form.data.instructions[form.i].step_number,
                                     instruction |-> form.data.instructions[form.i].instruction])
    /\ LET r == SubmitGoesOn(form, log, NextAwait(form.data, "instructions", form.i + 1))
       IN  form' = r.form /\ log' = r.log
    /\ UNCHANGED <<pdfVars, app, list, detail>>

SubmitAwaits ==
    {"recipes.update", "recipes.create", "ingredients.delete", "instructions.delete",
     "ingredients.create", "instructions.create"}

\* the awaited call rejects: lines 184-193
SubmitCallFails ==
    /\ form.pc \in SubmitAwaits
    /\ LET r == SubmitCaught(form, Caught(log, "onSubmit"))
       IN  form' = r.form /\ log' = r.log
    /\ UNCHANGED <<pdfVars, app, db, list, detail>>

\* lines 200-203: a row is appended, numbered with the count of the rows plus one
AddInstruction ==
    /\ form.mounted /\ ~form.loading /\ form.pc = "idle"
    /\ Len(form.instructionFields) < MaxRows
    /\ LET nextStep == Len(form.instructionFields) + 1
       IN  form' = [form EXCEPT !.instructionFields =
                        Append(@, [step_number |-> nextStep, instruction |-> <<>>])]
    /\ UNCHANGED <<pdfVars, app, db, list, detail, log>>

\* lines 532-541: the row at index (from 0) is removed, the others are left as
\* they are; the button is there while there is more than one row
RemoveInstruction(index) ==
    /\ form.mounted /\ ~form.loading /\ form.pc = "idle"
    /\ Len(form.instructionFields) > 1
    /\ index \in 0..(Len(form.instructionFields) - 1)
    /\ form' = [form EXCEPT !.instructionFields =
                    SubSeq(@, 1, index) \o SubSeq(@, index + 2, Len(@))]
    /\ UNCHANGED <<pdfVars, app, db, list, detail, log>>

\* lines 513-524: the text of the row at index is typed
TypeInstruction(index, text) ==
    /\ form.mounted /\ ~form.loading /\ form.pc = "idle"
    /\ index \in 0..(Len(form.instructionFields) - 1)
    /\ form.instructionFields[index + 1].instruction # text
    /\ form' = [form EXCEPT !.instructionFields[index + 1].instruction = text]
    /\ UNCHANGED <<pdfVars, app, db, list, detail, log>>

\* lines 301, 320, 339 and 422: the four numbers are typed
TypeNumbers ==
    /\ form.mounted /\ ~form.loading /\ form.pc = "idle"
    /\ form.numbers = DefaultNumbers
    /\ form' = [form EXCEPT !.numbers = TypedNumbers]
    /\ UNCHANGED <<pdfVars, app, db, list, detail, log>>

\* the data of the form when it is submitted with its numbers and its
\* instruction rows as they are, a name and the text of its one ingredient typed
FieldsData ==
    [name |-> NewName,
     preparation_time |-> form.numbers.preparation_time,
     cooking_time |-> form.numbers.cooking_time,
     servings |-> form.numbers.servings,
     ingredients |-> <<[ingredient |-> <<97>>, quantity |-> form.numbers.quantity]>>,
     instructions |-> form.instructionFields]

FormNext(inputs) ==
    \/ FormMount \/ LoadUnitsOk \/ LoadUnitsFails
    \/ FormLoadRecipeOk \/ FormLoadIngredientsOk \/ FormLoadInstructionsOk \/ FormLoadFails
    \/ HandleSubmit(inputs) \/ HandleSubmitRejected(inputs)
    \/ SubmitUpdateOk \/ SubmitDeleteIngredientsOk \/ SubmitDeleteInstructionsOk
    \/ SubmitCreateOkAssignmentThrows \/ SubmitCreateOkAssigned
    \/ SubmitIngredientOk \/ SubmitInstructionOk \/ SubmitCallFails

(***************************************************************************)
(* RecipeList.                                                             *)
(***************************************************************************)
DeleteTask(id) == IF id = 1 THEN "deleteRecipe.1" ELSE "deleteRecipe.2"

InSeq(x, q) == \E k \in 1..Len(q) : q[k] = x

ListStart ==
    [mounted |-> FALSE, loading |-> TRUE, recipes |-> <<>>, loadPc |-> "idle",
     del |-> [i \in ExistingIds |-> [pc |-> "idle", recipes |-> <<>>]],
     exp |-> [pc |-> "idle", id |-> 0]]

\* lines 37-41 and 59-61
ListMount ==
    /\ MayStart /\ ~list.mounted
    /\ list' = [list EXCEPT !.mounted = TRUE, !.loading = TRUE, !.loadPc = "recipes.list"]
    /\ log' = Call(log, "loadRecipes", "recipes.list", <<>>)
    /\ UNCHANGED <<pdfVars, app, db, form, detail>>

\* lines 40-46 and 54-56
LoadRecipesOk ==
    /\ list.loadPc = "recipes.list"
    /\ list' = [list EXCEPT !.loadPc = "done", !.recipes = RecipesDesc(db), !.loading = FALSE]
    /\ UNCHANGED <<pdfVars, app, db, form, detail, log>>

\* lines 47-56
LoadRecipesFails ==
    /\ list.loadPc = "recipes.list"
    /\ list' = [list EXCEPT !.loadPc = "failed", !.loading = FALSE]
    /\ log' = toast(Caught(log, "loadRecipes"), "loadRecipes", "destructive",
                    "No se pudieron cargar las recetas")
    /\ UNCHANGED <<pdfVars, app, db, form, detail>>

\* the card of recipe id is on the screen (line 153: nothing is while loading)
Listed(id) == list.mounted /\ ~list.loading /\ InSeq(id, list.recipes)

\* lines 63-66: the handler closes over the `recipes` of the render it was made in
DeleteRecipe(id) ==
    /\ MayStart /\ Listed(id) /\ list.del[id].pc = "idle"
    /\ list' = [list EXCEPT !.del[id] = [pc |-> "ingredients.delete", recipes |-> list.recipes]]
    /\ log' = Call(log, DeleteTask(id), "ingredients.delete", <<id>>)
    /\ UNCHANGED <<pdfVars, app, db, form, detail>>

\* lines 66-67
DeleteRecipeIngredientsOk(id) ==
    /\ list.del[id].pc = "ingredients.delete"
    /\ db' = ingredientsDelete(db, id)
    /\ list' = [list EXCEPT !.del[id].pc = "instructions.delete"]
    /\ log' = Call(log, DeleteTask(id), "instructions.delete", <<id>>)
    /\ UNCHANGED <<pdfVars, app, form, detail>>

\* lines 67-70
DeleteRecipeInstructionsOk(id) ==
    /\ list.del[id].pc = "instructions.delete"
    /\ db' = instructionsDelete(db, id)
    /\ list' = [list EXCEPT !.del[id].pc = "recipes.delete"]
    /\ log' = Call(log, DeleteTask(id), "recipes.delete", <<id>>)
    /\ UNCHANGED <<pdfVars, app, form, detail>>

\* lines 70-76
DeleteRecipeRecipeOk(id) ==
    /\ list.del[id].pc = "recipes.delete"
    /\ CanDeleteRecipe(db, id)
    /\ db' = recipesDelete(db, id)
    /\ list' = [list EXCEPT !.del[id].pc = "done",
                            !.recipes = SelectSeq(list.del[id].recipes, LAMBDA r : r # id)]
    /\ log' = toast(log, DeleteTask(id), "default", "Receta eliminada correctamente")
    /\ UNCHANGED <<pdfVars, app, form, detail>>

\* lines 77-84
DeleteRecipeFails(id) ==
    /\ list.del[id].pc \in {"ingredients.delete", "instructions.delete", "recipes.delete"}
    /\ list' = [list EXCEPT !.del[id].pc = "failed"]
    /\ log' = toast(Caught(log, DeleteTask(id)), DeleteTask(id), "destructive",
                    "No se pudo eliminar la receta")
    /\ UNCHANGED <<pdfVars, app, db, form, detail>>

\* lines 87-92
ExportToPDF(id) ==
    /\ MayStart /\ Listed(id) /\ list.exp.pc = "idle"
    /\ list' = [list EXCEPT !.exp = [pc |-> "ingredients.list", id |-> id]]
    /\ log' = Call(log, "exportToPDF", "ingredients.list", <<id>>)
    /\ UNCHANGED <<pdfVars, app, db, form, detail>>

\* lines 90-94
ExportIngredientsOk ==
    /\ list.exp.pc = "ingredients.list"
    /\ list' = [list EXCEPT !.exp.pc = "units.list"]
    /\ log' = Call(log, "exportToPDF", "units.list", <<>>)
    /\ UNCHANGED <<pdfVars, app, db, form, detail>>

\* lines 94-105
ExportUnitsOk ==
    /\ list.exp.pc = "units.list"
    /\ list' = [list EXCEPT !.exp.pc = "instructions.list"]
    /\ log' = Call(log, "exportToPDF", "instructions.list", <<list.exp.id>>)
    /\ UNCHANGED <<pdfVars, app, db, form, detail>>

\* lines 102-113: the rows arrive and the export starts
ExportInstructionsOk ==
    /\ list.exp.pc = "instructions.list"
    /\ list' = [list EXCEPT !.exp.pc = "generateRecipePDF"]
    /\ UNCHANGED <<pdfVars, app, db, form, detail, log>>

\* lines 113-118: generateRecipePDF resolved
ExportDone ==
    /\ list.exp.pc = "generateRecipePDF"
    /\ list' = [list EXCEPT !.exp.pc = "done"]
    /\ log' = toast(log, "exportToPDF", "default", "Receta exportada como PDF correctamente")
    /\ UNCHANGED <<pdfVars, app, db, form, detail>>

\* lines 119-126: generateRecipePDF threw
ExportThrows ==
    /\ list.exp.pc = "generateRecipePDF"
    /\ list' = [list EXCEPT !.exp.pc = "threw"]
    /\ log' = toast([log EXCEPT !["exportToPDF"].consoleErrors = @ + 1], "exportToPDF",
                    "destructive", "No se pudo exportar la receta a PDF")
    /\ UNCHANGED <<pdfVars, app, db, form, detail>>

\* lines 119-126: a list call rejected
ExportCallFails ==
    /\ list.exp.pc \in {"ingredients.list", "units.list", "instructions.list"}
    /\ list' = [list EXCEPT !.exp.pc = "failed"]
    /\ log' = toast(Caught(log, "exportToPDF"), "exportToPDF", "destructive",
                    "No se pudo exportar la receta a PDF")
    /\ UNCHANGED <<pdfVars, app, db, form, detail>>

ListNext ==
    \/ ListMount \/ LoadRecipesOk \/ LoadRecipesFails
    \/ \E id \in ExistingIds :
        \/ DeleteRecipe(id) \/ DeleteRecipeIngredientsOk(id)
        \/ DeleteRecipeInstructionsOk(id) \/ DeleteRecipeRecipeOk(id)
        \/ DeleteRecipeFails(id) \/ ExportToPDF(id)
    \/ ExportIngredientsOk \/ ExportUnitsOk \/ ExportInstructionsOk
    \/ ExportDone \/ ExportThrows \/ ExportCallFails

(***************************************************************************)
(* RecipeDetail, opened on recipe 1.                                       *)
(***************************************************************************)
DetailStart ==
    [id |-> 1, mounted |-> FALSE, loading |-> TRUE, deleting |-> FALSE, recipe |-> Undefined,
     loadPc |-> "idle", delPc |-> "idle"]

\* lines 27-38 and 89
DetailMount ==
    /\ MayStart /\ ~detail.mounted
    /\ detail' = [detail EXCEPT !.mounted = TRUE, !.loading = TRUE, !.loadPc = "recipes.list"]
    /\ log' = Call(log, "detail.loadRecipe", "recipes.list", <<detail.id>>)
    /\ UNCHANGED <<pdfVars, app, db, form, list>>

\* lines 35-55 and 84-86
DetailLoadRecipeOk ==
    /\ detail.loadPc = "recipes.list"
    /\ IF RecipeExists(db, detail.id)
       THEN /\ detail' = [detail EXCEPT !.loadPc = "ingredients.list"]
            /\ log' = Call(log, "detail.loadRecipe", "ingredients.list", <<detail.id>>)
       ELSE /\ detail' = [detail EXCEPT !.loadPc = "notfound", !.loading = FALSE]
            /\ log' = navigate(toast(log, "detail.loadRecipe", "destructive",
                                     "Receta no encontrada"), "detail.loadRecipe", "/")
    /\ UNCHANGED <<pdfVars, app, db, form, list>>

\* lines 53-58
DetailLoadIngredientsOk ==
    /\ detail.loadPc = "ingredients.list"
    /\ detail' = [detail EXCEPT !.loadPc = "units.list"]
    /\ log' = Call(log, "detail.loadRecipe", "units.list", <<>>)
    /\ UNCHANGED <<pdfVars, app, db, form, list>>

\* lines 58-70
DetailLoadUnitsOk ==
    /\ detail.loadPc = "units.list"
    /\ detail' = [detail EXCEPT !.loadPc = "instructions.list"]
    /\ log' = Call(log, "detail.loadRecipe", "instructions.list", <<detail.id>>)
    /\ UNCHANGED <<pdfVars, app, db, form, list>>

\* lines 67-76 and 84-86
DetailLoadInstructionsOk ==
    /\ detail.loadPc = "instructions.list"
    /\ detail' = [detail EXCEPT !.loadPc = "done", !.loading = FALSE,
                                !.recipe = Some(detail.id)]
    /\ UNCHANGED <<pdfVars, app, db, form, list, log>>

\* lines 77-86
DetailLoadFails ==
    /\ detail.loadPc \in {"recipes.list", "ingredients.list", "units.list", "instructions.list"}
    /\ detail' = [detail EXCEPT !.loadPc = "failed", !.loading = FALSE]
    /\ log' = toast(Caught(log, "detail.loadRecipe"), "detail.loadRecipe", "destructive",
                    "No se pudo cargar la receta")
    /\ UNCHANGED <<pdfVars, app, db, form, list>>

\* lines 92-99; the button is disabled while deleting
HandleDelete ==
    /\ MayStart /\ detail.mounted /\ ~detail.loading /\ IsDefined(detail.recipe)
    /\ ~detail.deleting /\ detail.delPc = "idle"
    /\ detail' = [detail EXCEPT !.deleting = TRUE, !.delPc = "ingredients.delete"]
    /\ log' = Call(log, "handleDelete", "ingredients.delete", detail.recipe)
    /\ UNCHANGED <<pdfVars, app, db, form, list>>

\* lines 99-100
HandleDeleteIngredientsOk ==
    /\ detail.delPc = "ingredients.delete"
    /\ db' = ingredientsDelete(db, Get(detail.recipe))
    /\ detail' = [detail EXCEPT !.delPc = "instructions.delete"]
    /\ log' = Call(log, "handleDelete", "instructions.delete", detail.recipe)
    /\ UNCHANGED <<pdfVars, app, form, list>>

\* lines 100-103
HandleDeleteInstructionsOk ==
    /\ detail.delPc = "instructions.delete"
    /\ db' = instructionsDelete(db, Get(detail.recipe))
    /\ detail' = [detail EXCEPT !.delPc = "recipes.delete"]
    /\ log' = Call(log, "handleDelete", "recipes.delete", detail.recipe)
    /\ UNCHANGED <<pdfVars, app, form, list>>

\* lines 103-110 and 118-120
HandleDeleteRecipeOk ==
    /\ detail.delPc = "recipes.delete"
    /\ CanDeleteRecipe(db, Get(detail.recipe))
    /\ db' = recipesDelete(db, Get(detail.recipe))
    /\ detail' = [detail EXCEPT !.delPc = "done", !.deleting = FALSE]
    /\ log' = navigate(toast(log, "handleDelete", "default", "Receta eliminada correctamente"),
                       "handleDelete", "/")
    /\ UNCHANGED <<pdfVars, app, form, list>>

\* lines 111-120
HandleDeleteFails ==
    /\ detail.delPc \in {"ingredients.delete", "instructions.delete", "recipes.delete"}
    /\ detail' = [detail EXCEPT !.delPc = "failed", !.deleting = FALSE]
    /\ log' = toast(Caught(log, "handleDelete"), "handleDelete", "destructive",
                    "No se pudo eliminar la receta")
    /\ UNCHANGED <<pdfVars, app, db, form, list>>

DetailNext ==
    \/ DetailMount \/ DetailLoadRecipeOk \/ DetailLoadIngredientsOk \/ DetailLoadUnitsOk
    \/ DetailLoadInstructionsOk \/ DetailLoadFails
    \/ HandleDelete \/ HandleDeleteIngredientsOk \/ HandleDeleteInstructionsOk
    \/ HandleDeleteRecipeOk \/ HandleDeleteFails

(***************************************************************************)
(* App: the session observer and what is rendered for the state it sets.   *)
(***************************************************************************)
Users == {Undefined, Some("ana"), Some("luis")}
Urls == {"/", "/recipe/new", "/recipe/1", "/recipe/1/edit"}

\* lines 73-78
Route(url) ==
    CASE url = "/" -> "RecipeList"
      [] url = "/recipe/new" -> "RecipeForm"
      [] url = "/recipe/1" -> "RecipeDetail"
      [] url = "/recipe/1/edit" -> "RecipeForm"

\* the render without the test of loading
RenderNoSpinner(user, loading, url) ==
    IF ~IsDefined(user)
    THEN [spinner |-> FALSE, login |-> TRUE, logout |-> FALSE, screen |-> "none"]
    ELSE [spinner |-> FALSE, login |-> FALSE, logout |-> TRUE, screen |-> Route(url)]

\* lines 21-83
Render(user, loading, url) ==
    IF loading
    THEN [spinner |-> TRUE, login |-> FALSE, logout |-> FALSE, screen |-> "none"]
    ELSE IF ~IsDefined(user)
    THEN [spinner |-> FALSE, login |-> TRUE, logout |-> FALSE, screen |-> "none"]
    ELSE [spinner |-> FALSE, login |-> FALSE, logout |-> TRUE, screen |-> Route(url)]

Rendered(a) == [a EXCEPT !.view = Render(a.user, a.loading, a.url)]

\* lines 10-11, at the URL "/"
AppStart ==
    Rendered([user |-> Undefined, loading |-> TRUE, url |-> "/", setLoading |-> Undefined,
              requested |-> "none", callbacks |-> 0,
              view |-> Render(Undefined, TRUE, "/")])

\* the app as the screens of SpecSave and SpecStore find it: a user is signed in
AppSignedIn == Rendered([AppStart EXCEPT !.user = Some("ana"), !.loading = FALSE])

\* lines 14-17, the two state updates rendered together (batched)
AuthCallback(user, isLoading) ==
    /\ app.callbacks < MaxCallbacks /\ app.setLoading = Undefined
    /\ app' = Rendered([app EXCEPT !.user = user, !.loading = isLoading,
                                   !.callbacks = @ + 1])
    /\ UNCHANGED <<pdfVars, storeVars>>

\* line 15 rendered on its own (updates outside React handlers are not batched
\* before React 18); line 16 is still to run
AuthCallbackSetUser(user, isLoading) ==
    /\ app.callbacks < MaxCallbacks /\ app.setLoading = Undefined
    /\ app' = Rendered([app EXCEPT !.user = user, !.setLoading = Some(isLoading),
                                   !.callbacks = @ + 1])
    /\ UNCHANGED <<pdfVars, storeVars>>

\* line 16
AuthCallbackSetLoading ==
    /\ app.setLoading # Undefined
    /\ app' = Rendered([app EXCEPT !.loading = Get(app.setLoading), !.setLoading = Undefined])
    /\ UNCHANGED <<pdfVars, storeVars>>

\* line 39
Login ==
    /\ app.setLoading = Undefined /\ app.view.login
    /\ app' = [app EXCEPT !.requested = "login"]
    /\ UNCHANGED <<pdfVars, storeVars>>

\* line 63
Logout ==
    /\ app.setLoading = Undefined /\ app.view.logout
    /\ app' = [app EXCEPT !.requested = "logout"]
    /\ UNCHANGED <<pdfVars, storeVars>>

\* the URL changes: a link or navigate() of a screen, or the address bar
GoTo(url) ==
    /\ app.setLoading = Undefined /\ url # app.url
    /\ app' = Rendered([app EXCEPT !.url = url])
    /\ UNCHANGED <<pdfVars, storeVars>>

AppNext ==
    \/ \E user \in Users, isLoading \in BOOLEAN :
          AuthCallback(user, isLoading) \/ AuthCallbackSetUser(user, isLoading)
    \/ AuthCallbackSetLoading \/ Login \/ Logout
    \/ \E url \in Urls : GoTo(url)

(***************************************************************************)
(* The specifications. SpecPdf: one export. SpecSave: the form alone, on   *)
(* every form data of FormInputs. SpecStore: the three screens at work on  *)
(* the same store, their awaits interleaved.                               *)
(***************************************************************************)
\* 'a': the one row text of the data saved under SpecStore
RowText == <<97>>
StoreInputs == {FormData(n, <<RowText>>, <<RowText>>) : n \in {<<>>, NewName}}

PdfInit ==
    /\ recipe \in ExportRecipes
    /\ pc = "new"
    /\ currentY = margin
    /\ tableStartY = 0
    /\ idx = 0
    /\ pdf = [pages |-> 0, drawn |-> <<>>, calls |-> <<>>, saved |-> <<>>]
    /\ thrown = Undefined
    /\ db = StoreStart
    /\ form = FormStart(Undefined)
    /\ list = ListStart
    /\ detail = DetailStart
    /\ log = [t \in Tasks |-> NoLog]
    /\ app = AppSignedIn

AppInit ==
    /\ recipe = BaseRecipe
    /\ pc = "idle"
    /\ currentY = margin
    /\ tableStartY = 0
    /\ idx = 0
    /\ pdf = [pages |-> 0, drawn |-> <<>>, calls |-> <<>>, saved |-> <<>>]
    /\ thrown = Undefined
    /\ db = StoreStart
    /\ form = FormStart(Undefined)
    /\ list = ListStart
    /\ detail = DetailStart
    /\ log = [t \in Tasks |-> NoLog]
    /\ app = AppStart

StoreInit ==
    /\ recipe = BaseRecipe
    /\ pc = "idle"
    /\ currentY = margin
    /\ tableStartY = 0
    /\ idx = 0
    /\ pdf = [pages |-> 0, drawn |-> <<>>, calls |-> <<>>, saved |-> <<>>]
    /\ thrown = Undefined
    /\ db = StoreStart
    /\ form \in {FormStart(Undefined), FormStart(Some(1))}
    /\ list = ListStart
    /\ detail = DetailStart
    /\ log = [t \in Tasks |-> NoLog]
    /\ app = AppSignedIn

SaveNext == FormNext(FormInputs \cup InvalidInputs)
StoreNext == FormNext(StoreInputs) \/ ListNext \/ DetailNext

SpecPdf == PdfInit /\ [][PdfNext]_vars
SpecSave == StoreInit /\ [][SaveNext]_vars
SpecStore == StoreInit /\ [][StoreNext]_vars
SpecApp == AppInit /\ [][AppNext]_vars

\* SpecSteps: the form with its numbers typed or left alone and its instruction
\* rows added, removed and typed, then submitted as it is
StepsNext ==
    \/ FormNext({FieldsData})
    \/ TypeNumbers
    \/ AddInstruction
    \/ \E index \in 0..(MaxRows - 1) : RemoveInstruction(index)
    \/ \E index \in 0..(MaxRows - 1), text \in {<<>>, <<97>>} : TypeInstruction(index, text)

SpecSteps == StoreInit /\ [][StepsNext]_vars

(***************************************************************************)
(* Claims about the export.                                                *)
(***************************************************************************)
DrawnIn(sec) == SelectSeq(pdf.drawn, LAMBDA d : d.sec = sec)

AfterTable ==
    {"sep1", "ingHeading", "ingredients", "insHeading", "instructions", "footer", "save", "done"}
AfterIngredients == {"insHeading", "instructions", "footer", "save", "done"}

\* what the claim C1 expects of one code unit of the name
ExpectedUnit(c) ==
    IF c \in 48..57 \/ c \in 97..122 THEN c
    ELSE IF c \in 65..90 THEN c + 32
    ELSE 95

\* C1: every file name passed to save is the recipe name, unit by unit, with
\* letters lower-cased, digits kept and every other unit replaced by '_',
\* followed by '.pdf'; the two examples of the claim give the stated names.
C1_FileName ==
    \A k \in 1..Len(pdf.saved) :
        LET f == pdf.saved[k]
            n == recipe.name
        IN  /\ Len(f) = Len(n) + 4
            /\ \A i \in 1..Len(n) : f[i] = ExpectedUnit(n[i])
            /\ SubSeq(f, Len(n) + 1, Len(n) + 4) = PdfExt
            /\ (n = PaellaValenciana => f = PaellaFile)
            /\ (n = TartaDeManzana => f = TartaFile)

C1_Witness ==
    /\ pc = "done"
    /\ recipe.name = PaellaValenciana
    /\ pdf.saved = <<PaellaFile>>

C1_WitnessNonAscii ==
    /\ pc = "done"
    /\ recipe.name = <<8490, 65>>
    /\ pdf.saved = <<(<<95, 97>> \o PdfExt)>>

\* C2 (as claimed): every text block is drawn at a y with
\* y + lineCount * fontSize * 0.4 <= pageHeight - margin.
C2_TextWithinPage ==
    \A k \in 1..Len(pdf.drawn) :
        pdf.drawn[k].sec \in {"title", "description", "ingHeading", "ingredient",
                              "insHeading", "instruction"}
            => pdf.drawn[k].y + pdf.drawn[k].h <= pageHeight - margin

\* C3 (as claimed): once the table is finished, the rows drawn are exactly
\* prep time, cook time, servings, difficulty and, when the recipe has a
\* category, category, in this order.
C3_TableRows ==
    pc \in AfterTable =>
        [k \in 1..Len(DrawnIn("table")) |-> DrawnIn("table")[k].text[1]]
            = <<LabelPrep, LabelCook, LabelServings, LabelDifficulty>>
              \o (IF TruthyString(recipe.category) THEN <<LabelCategory>> ELSE <<>>)

\* the same lookup on the list screen
listGetDifficultyText(difficulty) ==
    IF difficulty = Some("easy") THEN Facil
    ELSE IF difficulty = Some("medium") THEN Medio
    ELSE IF difficulty = Some("hard") THEN Dificil
    ELSE NoEspecificado

ExpectedLabel(d) ==
    CASE d = Some("easy") -> Facil
      [] d = Some("medium") -> Medio
      [] d = Some("hard") -> Dificil
      [] OTHER -> NoEspecificado

\* C4: the label of the difficulty row is decided by the recipe's difficulty
\* alone: easy, medium and hard give their labels, every other value and an
\* absent one give 'No especificado'; the list screen's lookup agrees.
C4_DifficultyLabel ==
    /\ \A k \in 1..Len(pdf.drawn) :
          (pdf.drawn[k].sec = "table" /\ pdf.drawn[k].text[1] = LabelDifficulty)
              => pdf.drawn[k].text[2] = ExpectedLabel(recipe.difficulty)
    /\ listGetDifficultyText(recipe.difficulty) = ExpectedLabel(recipe.difficulty)

C4_Witness ==
    /\ recipe.difficulty \notin {Some("easy"), Some("medium"), Some("hard")}
    /\ \E k \in 1..Len(pdf.drawn) : pdf.drawn[k].text = <<LabelDifficulty, NoEspecificado>>

\* the line the claim C7 expects of one ingredient
ExpectedIngredientLine(ing) ==
    LET hasQ == ing.quantity \notin {Undefined, Some(0)}
        hasU == ing.unit \notin {Undefined, Some(<<>>)}
        hasN == ing.notes \notin {Undefined, Some(<<>>)}
    IN  Bullet
        \o (IF hasQ THEN NumberToString(ing.quantity[1]) \o <<32>> ELSE <<>>)
        \o (IF hasU THEN ing.unit[1] ELSE <<>>)
        \o <<32>> \o ing.ingredient
        \o (IF hasN THEN <<32, 40>> \o ing.notes[1] \o <<41>> ELSE <<>>)

\* C7: the ingredient lines emitted so far are the lines of the first
\* ingredients, one each and in list order, in the claimed format; once the
\* loop is over there is one line per ingredient; quantity 3, no unit, no
\* notes, 'manzana' gives bullet, '3', two spaces, 'manzana'.
C7_IngredientLines ==
    LET lines == DrawnIn("ingredient")
    IN  /\ Len(lines) <= Len(recipe.ingredients)
        /\ \A k \in 1..Len(lines) :
              /\ lines[k].text = ExpectedIngredientLine(recipe.ingredients[k])
              /\ ( /\ recipe.ingredients[k].quantity = Some(3)
                   /\ recipe.ingredients[k].unit = Undefined
                   /\ recipe.ingredients[k].notes = Undefined
                   /\ recipe.ingredients[k].ingredient = Manzana )
                 => lines[k].text = Line3Manzana
        /\ pc = "ingredients" => Len(lines) = idx
        /\ pc \in AfterIngredients => Len(lines) = Len(recipe.ingredients)

C7_Witness ==
    /\ pc = "done"
    /\ Len(recipe.ingredients) = 2
    /\ recipe.ingredients[1] # recipe.ingredients[2]
    /\ DrawnIn("ingredient")[1].text = Line3Manzana
    /\ Len(DrawnIn("ingredient")) = 2

\* the blocks a complete layout has drawn
LayoutComplete ==
    /\ Len(DrawnIn("title")) = 1
    /\ Len(DrawnIn("separator")) = 2
    /\ Len(DrawnIn("ingHeading")) = 1
    /\ Len(DrawnIn("ingredient")) = Len(recipe.ingredients)
    /\ Len(DrawnIn("insHeading")) = 1
    /\ Len(DrawnIn("instruction")) = Len(recipe.instructions)
    /\ Len(DrawnIn("footer")) = 1

\* C8: a throw of a layout step reaches the caller as one error with the
\* generic message, and save was not invoked; a successful run invoked save
\* exactly once, after the whole layout; save is never invoked twice.
C8_GenericErrorNoSave ==
    /\ Len(pdf.saved) <= 1
    /\ Len(thrown) <= 1
    /\ (pc = "failed" /\ thrown[1].at \in TrySteps \ {"save"})
          => thrown[1].message = GenericError /\ pdf.saved = <<>>
    /\ pdf.saved # <<>> => LayoutComplete
    /\ pc = "done" => Len(pdf.saved) = 1 /\ thrown = Undefined /\ LayoutComplete

C8_Witness ==
    /\ pc = "failed"
    /\ thrown[1].at = "ingredients"
    /\ thrown[1].message = GenericError
    /\ Len(DrawnIn("ingredient")) = 1
    /\ pdf.saved = <<>>

(***************************************************************************)
(* Claims about saving and deleting.                                       *)
(***************************************************************************)
\* a text of white space only (the empty text too)
IsBlank(s) == \A k \in 1..Len(s) : s[k] \in WhiteSpace

SubmittedIngredients(id, data, Keep(_)) ==
    SelectSeq([k \in 1..Len(data.ingredients) |->
                  [recipe_id |-> id, ingredient |-> data.ingredients[k].ingredient]],
              LAMBDA r : Keep(r.ingredient))

SubmittedInstructions(id, data, Keep(_)) ==
    SelectSeq([k \in 1..Len(data.instructions) |->
                  [recipe_id |-> id, step_number |-> data.instructions[k].step_number,
                   instruction |-> data.instructions[k].instruction]],
              LAMBDA r : Keep(r.instruction))

NotEmpty(s) == s # <<>>
NotBlank(s) == ~IsBlank(s)

SavedRowsAre(Keep(_)) ==
    form.pc = "done" =>
        /\ RowsOf(db.ingredients, Get(form.id))
              = SubmittedIngredients(Get(form.id), form.data, Keep)
        /\ RowsOf(db.instructions, Get(form.id))
              = SubmittedInstructions(Get(form.id), form.data, Keep)

RowCalls(op, texts) ==
    LET kept == SelectSeq([k \in 1..Len(texts) |-> k], LAMBDA k : NotBlank(texts[k]))
    IN  [j \in 1..Len(kept) |-> [op |-> op, arg |-> <<kept[j]>>]]

EditCalls(id, data) ==
    <<[op |-> "recipes.update", arg |-> <<id>>],
      [op |-> "ingredients.delete", arg |-> <<id>>],
      [op |-> "instructions.delete", arg |-> <<id>>]>>
    \o RowCalls("ingredients.create",
                [k \in 1..Len(data.ingredients) |-> data.ingredients[k].ingredient])
    \o RowCalls("instructions.create",
                [k \in 1..Len(data.instructions) |-> data.instructions[k].instruction])

IsPrefix(p, q) == Len(p) <= Len(q) /\ SubSeq(q, 1, Len(p)) = p

\* what the store holds once call c of the save took effect on store d
EffectOf(d, id, data, c) ==
    CASE c.op = "recipes.update" -> [d EXCEPT !.recipes[id] = Some(data.name)]
      [] c.op = "ingredients.delete" ->
            [d EXCEPT !.ingredients = SelectSeq(@, LAMBDA r : r.recipe_id # id)]
      [] c.op = "instructions.delete" ->
            [d EXCEPT !.instructions = SelectSeq(@, LAMBDA r : r.recipe_id # id)]
      [] c.op = "ingredients.create" ->
            [d EXCEPT !.ingredients =
                Append(@, [recipe_id |-> id,
                           ingredient |-> data.ingredients[c.arg[1]].ingredient])]
      [] c.op = "instructions.create" ->
            [d EXCEPT !.instructions =
                Append(@, [recipe_id |-> id,
                           step_number |-> data.instructions[c.arg[1]].step_number,
                           instruction |-> data.instructions[c.arg[1]].instruction])]

RECURSIVE EffectsOf(_, _, _, _, _)
EffectsOf(d, id, data, calls, n) ==
    IF n = 0 THEN d
    ELSE EffectOf(EffectsOf(d, id, data, calls, n - 1), id, data, calls[n])

\* C9: the calls of a save of an existing recipe are, in this order, update
\* recipe, delete ingredients of the recipe, delete instructions of the recipe,
\* one create per ingredient row, one create per instruction row; a call is
\* issued only when every earlier one has taken effect; the failing call is the
\* last one issued; and the store holds the effects of the calls that succeeded,
\* no more and no less (nothing is rolled back).
C9_SaveOrderNoRollback ==
    (form.isEditing /\ form.pc # "idle") =>
        LET calls == log["onSubmit"].calls
            id == Get(form.id)
            succeeded == IF form.pc = "done" THEN Len(calls) ELSE Len(calls) - 1
        IN  /\ IsPrefix(calls, EditCalls(id, form.data))
            /\ form.pc = "done" => calls = EditCalls(id, form.data)
            /\ form.pc = "failed" => log["onSubmit"].failed = Len(calls)
            /\ form.pc # "failed" => log["onSubmit"].failed = 0
            /\ db = EffectsOf(StoreStart, id, form.data, calls, succeeded)

\* the first create failed: the recipe has its new name and no rows at all
C9_Witness ==
    /\ form.isEditing /\ form.pc = "failed"
    /\ log["onSubmit"].failed = 4
    /\ db.recipes[1] = Some(NewName)
    /\ RowsOf(db.ingredients, 1) = <<>>
    /\ RowsOf(db.instructions, 1) = <<>>

\* the delete handlers that ran to their success toast
Deleted(id) ==
    \/ id \in DOMAIN list.del /\ list.del[id].pc = "done"
    \/ detail.id = id /\ detail.delPc = "done"

ErrorText(t) ==
    CASE t = "loadUnits" -> {}
      [] t \in {"form.loadRecipe", "detail.loadRecipe"} -> {"No se pudo cargar la receta"}
      [] t = "onSubmit" -> {"No se pudo crear la receta", "No se pudo actualizar la receta"}
      [] t = "loadRecipes" -> {"No se pudieron cargar las recetas"}
      [] t \in {"deleteRecipe.1", "deleteRecipe.2", "handleDelete"} ->
            {"No se pudo eliminar la receta"}
      [] t = "exportToPDF" -> {"No se pudo exportar la receta a PDF"}

NoRetry(t) ==
    \A j, k \in 1..Len(log[t].calls) : log[t].calls[j] = log[t].calls[k] => j = k

FailureIsTerminal(t) ==
    log[t].failed # 0 =>
        /\ log[t].failed = Len(log[t].calls)
        /\ Len(log[t].toasts) = 1
        /\ log[t].toasts[1].variant = "destructive"
        /\ log[t].toasts[1].description \in ErrorText(t)
        /\ log[t].navs = <<>>

\* C10: within one user action no remote call is issued twice, and when a call
\* has failed the action issued no later call, showed exactly one notification,
\* an error one that names the action, showed no success notification and did
\* not navigate.
C10_NoRetryOneError ==
    \A t \in Tasks : NoRetry(t) /\ FailureIsTerminal(t)

(***************************************************************************)
(* Claims about the busy flags, validation and the new recipe.             *)
(***************************************************************************)
\* the program positions at which a call of the handler is in flight
InFlight(at) == at \notin {"idle", "done", "failed", "notfound", "threw"}

\* C11: once no call of a load, save or delete is in flight on a screen, its
\* busy flag is false again: loading on the form (loadRecipe and onSubmit), on
\* the list (loadRecipes) and on the detail screen (loadRecipe), deleting on the
\* detail screen (handleDelete), whether the action succeeded or a call failed.
C11_BusyFlagsReset ==
    /\ (form.mounted /\ ~InFlight(form.loadPc) /\ ~InFlight(form.pc)) => ~form.loading
    /\ (list.mounted /\ ~InFlight(list.loadPc)) => ~list.loading
    /\ (detail.mounted /\ ~InFlight(detail.loadPc)) => ~detail.loading
    /\ ~InFlight(detail.delPc) => ~detail.deleting

\* a save and a delete from the detail screen both ended at a failed call
C11_Witness ==
    /\ form.pc = "failed" /\ log["onSubmit"].failed # 0 /\ ~form.loading
    /\ detail.delPc = "failed" /\ ~detail.deleting /\ ~detail.loading
    /\ log["onSubmit"].consoleErrors = 1

\* the data the schema is meant to let through: a name of 1 to 255 characters,
\* positive numbers, at least one row in each list, no row with an empty text
ValidData(data) ==
    /\ data.name # <<>> /\ Len(data.name) < 256
    /\ data.preparation_time >= 1 /\ data.cooking_time >= 1 /\ data.servings >= 1
    /\ data.ingredients # <<>> /\ data.instructions # <<>>
    /\ \A k \in DOMAIN data.ingredients :
          data.ingredients[k].ingredient # <<>> /\ data.ingredients[k].quantity >= 1
    /\ \A k \in DOMAIN data.instructions :
          data.instructions[k].instruction # <<>> /\ data.instructions[k].step_number >= 1

\* C12: a submission whose data fails the schema issues no remote call: while the
\* form shows field errors onSubmit has not run and has issued no call, and the
\* data onSubmit runs on always satisfies the schema.
C12_InvalidNeverSubmitted ==
    /\ form.errors # {} => form.pc = "idle" /\ log["onSubmit"].calls = <<>>
    /\ form.pc # "idle" => ValidData(form.data)
    /\ log["onSubmit"].calls # <<>> => form.pc # "idle"

\* a submission with 0 portions was rejected, on the field, with no call
C12_Witness ==
    /\ form.errors = {"servings"}
    /\ form.rejected /\ form.pc = "idle"
    /\ log["onSubmit"].calls = <<>>

\* the rows the create calls of the save carried, in the order of the calls
CreatedIngredients(id) ==
    LET calls == SelectSeq(log["onSubmit"].calls, LAMBDA c : c.op = "ingredients.create")
    IN  [j \in 1..Len(calls) |->
            [recipe_id |-> id, ingredient |-> form.data.ingredients[calls[j].arg[1]].ingredient]]

CreatedInstructions(id) ==
    LET calls == SelectSeq(log["onSubmit"].calls, LAMBDA c : c.op = "instructions.create")
    IN  [j \in 1..Len(calls) |->
            [recipe_id |-> id,
             step_number |-> form.data.instructions[calls[j].arg[1]].step_number,
             instruction |-> form.data.instructions[calls[j].arg[1]].instruction]]

\* C13: after a save of an existing recipe that succeeded, the ingredient rows
\* stored for the recipe are exactly the rows that save created, in order, none
\* of the rows stored before the save remains, and likewise for the instructions.
C13_RowsReplacedWholesale ==
    (form.isEditing /\ form.pc = "done") =>
        LET id == Get(form.id)
        IN  /\ RowsOf(db.ingredients, id) = CreatedIngredients(id)
            /\ RowsOf(db.instructions, id) = CreatedInstructions(id)
            /\ \A k \in DOMAIN db.ingredients :
                  db.ingredients[k].recipe_id = id
                      => ~InSeq(db.ingredients[k], StoreStart.ingredients)
            /\ \A k \in DOMAIN db.instructions :
                  db.instructions[k].recipe_id = id
                      => ~InSeq(db.instructions[k], StoreStart.instructions)

\* recipe 1 had one row of each kind; the save left it with two of each
C13_Witness ==
    /\ form.isEditing /\ form.pc = "done"
    /\ Len(RowsOf(db.ingredients, 1)) = 2
    /\ Len(RowsOf(db.instructions, 1)) = 2
    /\ Len(RowsOf(db.ingredients, 2)) = 1

\* C14: a save in create mode none of whose calls fails creates one recipe with
\* the original flag, creates every ingredient row and every instruction row that
\* is not blank with the identifier of that recipe as its recipe reference, shows
\* the success notification and navigates to the list; and no row of the store
\* is ever without the recipe it refers to.
C14_CreateSavesRows ==
    /\ (~form.isEditing /\ form.pc \in {"done", "failed"} /\ log["onSubmit"].failed = 0) =>
          /\ form.pc = "done"
          /\ RecipeExists(db, 3) /\ db.original = {3} /\ db.nextId = 4
          /\ db.recipes[3] = Some(form.data.name)
          /\ RowsOf(db.ingredients, 3) = SubmittedIngredients(3, form.data, NotBlank)
          /\ RowsOf(db.instructions, 3) = SubmittedInstructions(3, form.data, NotBlank)
          /\ log["onSubmit"].toasts
                = <<[variant |-> "default", description |-> "Receta creada correctamente"]>>
          /\ log["onSubmit"].navs = <<"/">>
    /\ \A k \in DOMAIN db.ingredients : RecipeExists(db, db.ingredients[k].recipe_id)
    /\ \A k \in DOMAIN db.instructions : RecipeExists(db, db.instructions[k].recipe_id)

C16_LoadingWhileInFlight ==
    /\ (InFlight(form.unitsPc) \/ InFlight(form.loadPc) \/ InFlight(form.pc)) => form.loading
    /\ InFlight(list.loadPc) => list.loading
    /\ \A id \in DOMAIN list.del : InFlight(list.del[id].pc) => list.loading
    /\ InFlight(list.exp.pc) => list.loading
    /\ InFlight(detail.loadPc) => detail.loading
    /\ InFlight(detail.delPc) => (detail.loading \/ detail.deleting)

\* C16 for the handlers that do set a busy flag
C16_FlaggedHandlers ==
    /\ (InFlight(form.loadPc) \/ InFlight(form.pc)) => form.loading
    /\ InFlight(list.loadPc) => list.loading
    /\ InFlight(detail.loadPc) => detail.loading
    /\ InFlight(detail.delPc) => detail.deleting

\* C16 for the handlers of the list that set none
C16_ListHandlers ==
    /\ \A id \in DOMAIN list.del : InFlight(list.del[id].pc) => list.loading
    /\ InFlight(list.exp.pc) => list.loading

(***************************************************************************)
(* Claims about the order and the place of what the export draws.          *)
(***************************************************************************)
\* the sections drawn so far, one entry per run of draws of the same section
RECURSIVE Blocks(_)
Blocks(drawn) ==
    IF drawn = <<>> THEN <<>>
    ELSE LET before == Blocks(SubSeq(drawn, 1, Len(drawn) - 1))
             sec    == drawn[Len(drawn)].sec
         IN  IF before # <<>> /\ before[Len(before)] = sec THEN before
             ELSE Append(before, sec)

\* the blocks of a complete export of r, the table block being there or not
BlocksOf(r, table) ==
    <<"title">>
    \o (IF r.description # Undefined /\ Get(r.description) # <<>>
        THEN <<"description">> ELSE <<>>)
    \o (IF table THEN <<"table">> ELSE <<>>)
    \o <<"separator", "ingHeading">>
    \o (IF r.ingredients # <<>> THEN <<"ingredient">> ELSE <<>>)
    \o <<"separator", "insHeading">>
    \o (IF r.instructions # <<>> THEN <<"instruction">> ELSE <<>>)
    \o <<"footer">>

\* C17: the blocks of an export are emitted in the order title, description (if
\* present), metadata table, separator, 'Ingredientes' heading, ingredient
\* lines, separator, 'Instrucciones' heading, instruction lines, footer: what was
\* drawn so far is always a beginning of that list, and the file is saved only
\* when the whole list was drawn.
C17_RenderOrder ==
    /\ IsPrefix(Blocks(pdf.drawn), BlocksOf(recipe, TRUE))
    /\ pdf.saved # <<>> => Blocks(pdf.drawn) = BlocksOf(recipe, TRUE)

\* C17 without the table: the other blocks are emitted in the order of the list,
\* the rows of the table that are drawn come between the description and the
\* first separator, and the file is saved only when all was drawn.
C17_OrderOfTheRest ==
    LET table == DrawnIn("table") # <<>>
    IN  /\ IsPrefix(Blocks(pdf.drawn), BlocksOf(recipe, table))
        /\ pdf.saved # <<>> => Blocks(pdf.drawn) = BlocksOf(recipe, table)

\* C18: the instructions handed to the builder are in ascending order of step
\* number, and the builder emits one line per instruction, in the order of the
\* list, each line being the step number, a dot, a space and the text.
C18_InstructionLines ==
    LET ins   == recipe.instructions
        lines == DrawnIn("instruction")
    IN  /\ \A j, k \in 1..Len(ins) : j < k => ins[j].step_number <= ins[k].step_number
        /\ Len(lines) <= Len(ins)
        /\ \A k \in 1..Len(lines) :
              lines[k].text = NumberToString(ins[k].step_number) \o <<46, 32>> \o ins[k].instruction
        /\ pc \in {"footer", "save", "done"} => Len(lines) = Len(ins)

\* an export is done of three steps of which the one created second ('b') comes
\* first and the one created first ('a') comes last
C18_Witness ==
    /\ pc = "done"
    /\ Len(recipe.instructions) = 3
    /\ recipe.instructions[1].instruction = <<98>>
    /\ recipe.instructions[3].instruction = <<97>>
    /\ Len(DrawnIn("instruction")) = 3

\* C19: the footer is drawn once per export, after everything else, on the last
\* page of the document and 15 mm above the bottom edge of the page, wherever
\* the cursor is and however many pages there are: no footer is drawn before the
\* instructions are through, and no page but the last carries one.
C19_FooterOnceOnLastPage ==
    LET footers == DrawnIn("footer")
    IN  /\ Len(footers) <= 1
        /\ \A k \in 1..Len(footers) :
              /\ footers[k].page = pdf.pages
              /\ footers[k].y = 2970 - 150
              /\ footers[k].text = FooterLabel
        /\ footers # <<>> => pdf.drawn[Len(pdf.drawn)].sec = "footer"
        /\ pc \in {"save", "done"} => Len(footers) = 1
        /\ pc \notin {"save", "done", "failed"} => footers = <<>>

\* an export of three pages or more is done, its cursor not at the height of
\* the footer
C19_Witness ==
    /\ pc = "done"
    /\ pdf.pages >= 3
    /\ currentY # 2970 - 150
    /\ Len(DrawnIn("footer")) = 1
    /\ DrawnIn("footer")[1].page = pdf.pages

\* what addText has drawn, one entry per call
TextsDrawn ==
    SelectSeq(pdf.drawn, LAMBDA d : d.sec \in {"title", "description", "ingHeading",
                                               "ingredient", "insHeading", "instruction"})

\* C20: the cursor starts at the top margin, 20 mm. A text of L lines at font
\* size F takes L * F * 0.4 mm: when the cursor plus that height is within
\* pageHeight - margin the text is drawn at the cursor on the current page, and
\* otherwise one page is added and the text is drawn on it at the top margin;
\* the cursor is left at the place of the text plus its height plus 5 mm.
C20_CursorAfterText ==
    /\ pc \in {"new", "title"} => currentY = 200
    /\ Len(TextsDrawn) = Len(pdf.calls)
    /\ \A k \in 1..Len(pdf.calls) :
          LET c     == pdf.calls[k]
              h     == c.lines * c.fontSize * 4
              break == c.y + h > 2970 - 200
              yEmit == IF break THEN 200 ELSE c.y
          IN  /\ c.after = yEmit + h + 50
              /\ TextsDrawn[k].y = yEmit
              /\ TextsDrawn[k].page = c.pages + (IF break THEN 1 ELSE 0)

\* an export is done in which one text fitted at the cursor and a later one of
\* several lines was moved to a new page
C20_Witness ==
    /\ pc = "done"
    /\ \E j, k \in 1..Len(pdf.calls) :
          /\ j < k
          /\ pdf.calls[j].y + pdf.calls[j].lines * pdf.calls[j].fontSize * 4 <= 2970 - 200
          /\ pdf.calls[k].lines > 1
          /\ pdf.calls[k].y + pdf.calls[k].lines * pdf.calls[k].fontSize * 4 > 2970 - 200
          /\ TextsDrawn[k].page = pdf.calls[k].pages + 1

\* C21: a call of the separator with the cursor at y draws its rule at y on the
\* current page when y + 10 is within pageHeight - margin, and otherwise adds a
\* page and draws the rule on it at the top margin; the rule is never below
\* pageHeight - margin, and the cursor is left 15 mm below the rule. The first
\* call finds the cursor where the table left it, the second 10 mm below the
\* last ingredient line.
C21_SeparatorStep ==
    [][(pc # pc' /\ (pc = "sep1" \/ pc' = "insHeading"))
        => LET y     == IF pc = "sep1" THEN currentY ELSE currentY + 100
               break == y + 100 > 2970 - 200
               rule  == pdf'.drawn[Len(pdf'.drawn)]
           IN  \/ pc' = "failed"
               \/ /\ Len(pdf'.drawn) = Len(pdf.drawn) + 1
                  /\ rule.sec = "separator"
                  /\ rule.y = (IF break THEN 200 ELSE y)
                  /\ rule.page = pdf.pages + (IF break THEN 1 ELSE 0)
                  /\ pdf'.pages = rule.page
                  /\ rule.y <= 2970 - 200
                  /\ currentY' = rule.y + 150]_vars

\* an export is done with one rule at the top of a page that the separator
\* added and the other rule further down a page
C21_Witness ==
    /\ pc = "done"
    /\ \E j, k \in 1..Len(pdf.drawn) :
          /\ pdf.drawn[j].sec = "separator" /\ pdf.drawn[j].y = 200
          /\ pdf.drawn[k].sec = "separator" /\ pdf.drawn[k].y > 200

\* the page the table starts on: the page of the text drawn just before it
TableStartPage ==
    IF DrawnIn("description") # <<>> THEN DrawnIn("description")[1].page
    ELSE DrawnIn("title")[1].page

\* the rows of the table, numbered from 0, that pass the fit check
RowsThatFit ==
    {i \in 0..(Len(infoData(recipe)) - 1) : tableStartY + i * 80 + 80 <= 2970 - 200}

\* C22: row number i of the table is drawn 8 mm high at tableStartY + i * 8 when
\* that plus 8 is within pageHeight - margin. Once a row fails this check a page
\* is started, and neither that row nor any row after it is drawn on any page;
\* the rows before it are all drawn, on the page the table started on.
C22_RowsAfterOverflowDropped ==
    pc \in AfterTable =>
        LET rows == DrawnIn("table")
            data == infoData(recipe)
        IN  /\ \A i \in RowsThatFit : \A j \in 0..i : j \in RowsThatFit
            /\ Len(rows) = Cardinality(RowsThatFit)
            /\ \A k \in 1..Len(rows) :
                  /\ rows[k].y = tableStartY + (k - 1) * 80
                  /\ rows[k].h = 80
                  /\ rows[k].text = data[k]
                  /\ rows[k].page = TableStartPage
            /\ Len(rows) < Len(data) =>
                  \A k \in 1..Len(pdf.drawn) :
                      pdf.drawn[k].page > TableStartPage => pdf.drawn[k].sec # "table"
            /\ Len(rows) < Len(data) => pdf.pages > TableStartPage

\* an export is done whose table lost its last rows, not its first
C22_Witness ==
    /\ pc = "done"
    /\ DrawnIn("table") # <<>>
    /\ Len(DrawnIn("table")) < Len(infoData(recipe))

\* C28: the table starts at most one page: when its rows are through, the
\* document has at most one page more than when the table began.
C28_TableAddsAtMostOnePage ==
    pc = "sep1" => pdf.pages <= TableStartPage + 1

\* the pages the table adds: one for every row that fails the fit check
C28_OnePagePerDroppedRow ==
    pc = "sep1" =>
        pdf.pages = TableStartPage + (Len(infoData(recipe)) - Cardinality(RowsThatFit))

(***************************************************************************)
(* Claims about the rows of the form.                                      *)
(***************************************************************************)
\* C23: in a new form, whatever instruction rows were added and removed, row
\* number k of the form carries the step number k, and when the save has
\* succeeded the instruction rows stored for the recipe carry 1, 2, ... in order.
C23_StepsContiguous ==
    ~form.isEditing =>
        /\ \A k \in 1..Len(form.instructionFields) :
              form.instructionFields[k].step_number = k
        /\ form.pc = "done" =>
              LET saved == RowsOf(db.instructions, Get(form.id))
              IN  \A k \in 1..Len(saved) : saved[k].step_number = k

\* what the code does keep: the step number of a row is at least 1 and at most
\* the number of rows there were when it was added
C23_StepsWithinCount ==
    ~form.isEditing =>
        \A k \in 1..Len(form.instructionFields) :
            form.instructionFields[k].step_number \in 1..MaxRows

(***************************************************************************)
(* Claims about the delete actions.                                        *)
(***************************************************************************)
\* C24: when every delete started on the list screen has succeeded, the list of
\* the screen holds none of the recipes deleted, whether the deletes ran one
\* after the other or the second was started while the first was in flight.
C24_ListWithoutDeleted ==
    (\A id \in ExistingIds : list.del[id].pc \in {"idle", "done"}) =>
        \A id \in ExistingIds : list.del[id].pc = "done" => ~InSeq(id, list.recipes)

\* the list after a delete that succeeded is the list its handler was made with,
\* less the recipe of that delete alone
C24_ListOfTheClosure ==
    \A id \in ExistingIds :
        (list.del[id].pc = "done" /\ list.del[3 - id].pc # "done") =>
            ~InSeq(id, list.recipes)

\* recipe id and its rows are in the store as they were at the start
Untouched(id) ==
    /\ db.recipes[id] = StoreStart.recipes[id]
    /\ RowsOf(db.ingredients, id) = RowsOf(StoreStart.ingredients, id)
    /\ RowsOf(db.instructions, id) = RowsOf(StoreStart.instructions, id)

Removed(id) ==
    /\ ~RecipeExists(db, id)
    /\ RowsOf(db.ingredients, id) = <<>>
    /\ RowsOf(db.instructions, id) = <<>>

\* C25: a delete action that has ended leaves the store with the recipe and all
\* its rows removed, or, when one of its calls failed, with the recipe and all
\* its rows as they were before. Stated of the delete of recipe 2 on the list,
\* and of the delete of recipe 1 on the detail screen when no other action has
\* written recipe 1.
C25_DeleteAllOrNothing ==
    /\ list.del[2].pc = "done" => Removed(2)
    /\ list.del[2].pc = "failed" => Untouched(2)
    /\ (form.pc = "idle" /\ list.del[1].pc = "idle") =>
          /\ detail.delPc = "done" => Removed(1)
          /\ detail.delPc = "failed" => Untouched(1)

\* the half that holds: a delete that ended with its success toast removed all
C25_SuccessRemovesAll ==
    /\ list.del[2].pc = "done" => Removed(2)
    /\ (form.pc = "idle" /\ list.del[1].pc = "idle") => (detail.delPc = "done" => Removed(1))

(***************************************************************************)
(* Claims about validation and what is saved.                              *)
(***************************************************************************)
\* C26: when a save has ended with its success notification, the store holds at
\* least one ingredient row and at least one instruction row of the recipe.
C26_SavedRecipeHasRows ==
    form.pc = "done" =>
        /\ RowsOf(db.ingredients, Get(form.id)) # <<>>
        /\ RowsOf(db.instructions, Get(form.id)) # <<>>

\* what holds instead: the rows saved are as many as the submitted rows whose
\* text is not blank, and a text of white space passes the schema
C26_SavedRowsAsManyAsNotBlank ==
    form.pc = "done" =>
        /\ Len(RowsOf(db.ingredients, Get(form.id)))
              = Cardinality({k \in DOMAIN form.data.ingredients :
                                NotBlank(form.data.ingredients[k].ingredient)})
        /\ Len(RowsOf(db.instructions, Get(form.id)))
              = Cardinality({k \in DOMAIN form.data.instructions :
                                NotBlank(form.data.instructions[k].instruction)})

\* C27: a new form submitted with a name, an ingredient text and an instruction
\* text typed, and its numbers left at their defaults 0, 0, 1 and 0, passes the
\* validation: while the numbers are the defaults, no submission is turned down
\* with an error on a time, on the portions or on the ingredient.
C27_DefaultsPassValidation ==
    form.numbers = DefaultNumbers =>
        form.errors \cap {"preparation_time", "cooking_time", "servings", "ingredients"} = {}

\* what happens instead: with the numbers at their defaults every submission is
\* turned down on the two times and on the quantity, and onSubmit never runs
C27_DefaultsRejected ==
    form.numbers = DefaultNumbers =>
        /\ form.pc = "idle"
        /\ form.rejected =>
              {"preparation_time", "cooking_time", "ingredients"} \subseteq form.errors
        /\ "servings" \notin form.errors

(***************************************************************************)
(* The difficulty on the detail screen.                                    *)
(***************************************************************************)
\* the lookup of the detail screen
detailGetDifficultyText(difficulty) ==
    IF difficulty = Some("easy") THEN Facil
    ELSE IF difficulty = Some("medium") THEN Medio
    ELSE IF difficulty = Some("hard") THEN Dificil
    ELSE NoEspecificado

\* recipe.difficulty || 'easy': an absent and an empty difficulty become 'easy'
DifficultyOrEasy(difficulty) ==
    IF difficulty = Undefined \/ difficulty = Some("") THEN Some("easy") ELSE difficulty

\* the text of the badge of the detail screen
DetailBadge(r) == detailGetDifficultyText(DifficultyOrEasy(r.difficulty))

\* the rows of the table drawn with the difficulty
DifficultyRows ==
    SelectSeq(pdf.drawn, LAMBDA d : d.sec = "table" /\ d.text[1] = LabelDifficulty)

\* C29: the label of the difficulty in the table of the exported document is the
\* label the detail screen shows for the same recipe.
C29_DetailLabelIsExportLabel ==
    \A k \in 1..Len(DifficultyRows) : DifficultyRows[k].text[2] = DetailBadge(recipe)

\* the two labels are the same when the recipe has a difficulty that is not the
\* empty text, and are 'Facil' on the screen and 'No especificado' in the
\* document when it has none
C29_LabelsDifferWithoutDifficulty ==
    \A k \in 1..Len(DifficultyRows) :
        IF recipe.difficulty \in {Undefined, Some("")}
        THEN DetailBadge(recipe) = Facil /\ DifficultyRows[k].text[2] = NoEspecificado
        ELSE DifficultyRows[k].text[2] = DetailBadge(recipe)

====
